---- MODULE Spec2Model ----
(***************************************************************************)
(* umac: Micro Mac 128K emulator.  State-machine model of src/main.c:      *)
(* the interrupt controller, the overlay / memory map dispatch, the fatal  *)
(* fault path of umac_loop and the keyboard service above the VIA shift    *)
(* register.                                                               *)
(***************************************************************************)
EXTENDS Integers, Sequences, FiniteSets, TLC

VARIABLES
    \* interrupt controller (main.c:68-69) and the CPU's IRQ input
    g_int_controller_pending,
    g_int_controller_highest_int,
    cpu_int_level,          \* last level handed to m68k_set_irq
    int_call,               \* history: what the last int_controller_* call did
    \* build configuration
    ENABLE_AUDIO,           \* #if ENABLE_AUDIO, fixed at build time
    \* memory map state
    overlay,                \* main.c:77
    cpu_read_instr,         \* main.c:375, "overlay" or "normal" variant
    oldval,                 \* static of via_ra_changed, main.c:149
    ram,                    \* RAM image, modelled at the offsets RamOffs
    rom,                    \* ROM image, modelled at the offsets RomOffs
    iwm_regs,               \* main.c:323
    via_regs,               \* the registers of the VIA (via.c), as via_write latched them
    \* fatal fault path
    sim_done,               \* main.c:79
    guard_val,              \* static of exit_error, main.c:120
    \* umac_loop
    pc,                     \* where the single thread of control is
    cycles,                 \* local of umac_loop
    used_cycles,            \* local of umac_loop
    global_cycles,          \* main.c:78
    global_time_us,         \* main.c:78
    loop_ret,               \* value the last umac_loop() call returned, -1 before
    nloops,                 \* number of umac_loop() calls made
    fault_in_call,          \* history: exit_error was reached in this umac_loop() call
    \* keyboard service
    kbd_last_cmd,           \* main.c:231
    kbd_last_cmd_time,      \* main.c:232
    kbd_pending_evt,        \* main.c:244
    \* history of the memory accesses
    ovl_hist,               \* which operation last decided the overlay flag
    last_acc,               \* the last CPU data access since the overlay flag
                            \* was last assigned, and what served it
    \* history of the keyboard service
    evt_seq,                \* number of umac_kbd_event calls
    last_ev,                \* arguments of the latest umac_kbd_event call
    slot_id,                \* which umac_kbd_event call filled kbd_pending_evt
    slot_ev,                \* and with which arguments
    overwritten,            \* events replaced in the slot before any delivery
    deliveries,             \* INQUIRY answers that carried a key event
    ntx,                    \* number of via_sr_tx calls
    tx_rec,                 \* the latest via_sr_tx and what became of it, with
                            \* counts of the commands sent, replaced and processed
    last_poll,              \* what the last kbd_check_work did
    \* history of umac_loop
    loop_trace,             \* the calls umac_loop made since it was entered
    loop_args,              \* the arguments and results of those calls, while
                            \* umac_loop is running
    \* device interrupt hooks
    virq,                   \* level -> the state last handed to m68k_set_virq
    scc_irq_state,          \* main.c:308
    irq_hist,               \* the latest status each device reported, -1 before
    \* host start-up and the ROM patcher
    host_pc,                \* where main() of the host is
    disp_width,             \* DISP_WIDTH, fixed at build time
    disp_height,            \* DISP_HEIGHT, fixed at build time
    mem_size,               \* UMAC_MEMSIZE * 1024, fixed at build time
    patch_ret,              \* what the last rom_patch call returned, -2 before
    npatch,                 \* number of rom_patch calls
    rom_orig,               \* history: the ROM image as loaded
    rom_once,               \* history: the ROM image after the first rom_patch
    \* mouse
    via_quadbits,           \* main.c:194
    via_mouse_pressed,      \* main.c:195
    nmouse,                 \* number of umac_mouse calls
    mouse_call,             \* history: the last umac_mouse call and the state before it
    rb_read,                \* the value the last via_rb_in call returned, -1 before
    \* audio (unix_main.c), two threads
    audio,                  \* int16_t audio[], unix_main.c:91
    pending_v_retrace,      \* atomic_int, unix_main.c:87
    trap_pos,               \* emulator thread: next sample umac_audio_trap stores
    ntrap,                  \* number of umac_audio_trap calls
    cb_pos,                 \* audio thread: next sample audio_callback copies, -1 outside
    ncb,                    \* number of audio_callback calls
    stream,                 \* the buffer audio_callback fills for the device
    \* history of the IWM
    iwm_wr,                 \* register -> the byte the CPU last wrote to it, 0 before
    \* main loop of the host, unix_main.c:353-446
    now_usec,               \* the clock as gettimeofday last answered
    last_vsync,             \* unix_main.c:356
    last_1hz,               \* unix_main.c:358
    done,                   \* unix_main.c:353
    host_iter,              \* iterations of the main loop completed
    vsync_rec               \* history: the umac_vsync_event calls

intVars == <<g_int_controller_pending, g_int_controller_highest_int,
             cpu_int_level, int_call>>

memVars == <<overlay, cpu_read_instr, oldval, ram, rom, iwm_regs, via_regs>>

faultVars == <<sim_done, guard_val>>

loopVars == <<pc, cycles, used_cycles, global_cycles, global_time_us,
              loop_ret, nloops, fault_in_call, loop_trace, loop_args>>

irqVars == <<virq, scc_irq_state, irq_hist>>

bootVars == <<host_pc, disp_width, disp_height, mem_size, patch_ret, npatch,
              rom_orig, rom_once>>

mouseVars == <<via_quadbits, via_mouse_pressed, nmouse, mouse_call, rb_read>>

audioVars == <<audio, pending_v_retrace, trap_pos, ntrap, cb_pos, ncb, stream>>

hostVars == <<now_usec, last_vsync, last_1hz, done, host_iter, vsync_rec>>

\* the state of the device hooks, the host start-up, the mouse, the audio and
\* the main loop of the host
extVars == <<irqVars, bootVars, mouseVars, audioVars, iwm_wr, hostVars>>

kbdVars == <<kbd_last_cmd, kbd_last_cmd_time, kbd_pending_evt>>

memHist == <<ovl_hist, last_acc>>

kbdHist == <<evt_seq, last_ev, slot_id, slot_ev, overwritten, deliveries, ntx, tx_rec,
             last_poll>>

vars == <<intVars, ENABLE_AUDIO, memVars, faultVars, loopVars, kbdVars,
          memHist, kbdHist, extVars>>

----------------------------------------------------------------------------
(* Bit operations on unsigned integers, as C computes them.                 *)

RECURSIVE Pow2(_)
Pow2(n) == IF n = 0 THEN 1 ELSE 2 * Pow2(n - 1)

\* (x >> n) & 1
Bit(x, n) == (x \div Pow2(n)) % 2

\* x | (1 << n)
BitOr1(x, n) == IF Bit(x, n) = 1 THEN x ELSE x + Pow2(n)

\* x & ~(1 << n)
BitClr1(x, n) == IF Bit(x, n) = 1 THEN x - Pow2(n) ELSE x

----------------------------------------------------------------------------
(* Interrupt controller, main.c:532-555                                     *)

\* the levels a device may pass to int_controller_set / _clear
IntLevels == 1..7

\* the loop of int_controller_clear: for (h = 7; h > 0; h--) if (pending & (1<<h)) break;
RECURSIVE HighestScan(_, _)
HighestScan(pending, h) ==
    IF h > 0 /\ Bit(pending, h) = 0 THEN HighestScan(pending, h - 1) ELSE h

int_controller_set_always(value) ==
    LET old_pending == g_int_controller_pending
        new_pending == BitOr1(old_pending, value)
    IN  /\ g_int_controller_pending' = new_pending
        /\ g_int_controller_highest_int' = value
        /\ cpu_int_level' = value
        /\ int_call' = [op |-> "set", value |-> value,
                        changed |-> old_pending # new_pending,
                        irq |-> <<value>>]

int_controller_set(value) ==
    LET old_pending == g_int_controller_pending
        new_pending == BitOr1(old_pending, value)
        raise == old_pending # new_pending /\ value > g_int_controller_highest_int
    IN  /\ g_int_controller_pending' = new_pending
        /\ g_int_controller_highest_int' =
              IF raise THEN value ELSE g_int_controller_highest_int
        /\ cpu_int_level' = IF raise THEN value ELSE cpu_int_level
        /\ int_call' = [op |-> "set", value |-> value,
                        changed |-> old_pending # new_pending,
                        irq |-> IF raise THEN <<value>> ELSE <<>>]

int_controller_clear_silent(value) ==
    LET old_pending == g_int_controller_pending
        new_pending == BitClr1(old_pending, value)
        h == HighestScan(new_pending, 7)
    IN  /\ g_int_controller_pending' = new_pending
        /\ g_int_controller_highest_int' = h
        /\ cpu_int_level' = cpu_int_level
        /\ int_call' = [op |-> "clear", value |-> value,
                        changed |-> old_pending # new_pending,
                        irq |-> <<>>]

int_controller_clear(value) ==
    LET old_pending == g_int_controller_pending
        new_pending == BitClr1(old_pending, value)
        h == HighestScan(new_pending, 7)
    IN  /\ g_int_controller_pending' = new_pending
        /\ g_int_controller_highest_int' = h
        /\ cpu_int_level' = h
        /\ int_call' = [op |-> "clear", value |-> value,
                        changed |-> old_pending # new_pending,
                        irq |-> <<h>>]

notInt == <<ENABLE_AUDIO, memVars, faultVars, loopVars, kbdVars, memHist, kbdHist,
            extVars>>

IntSet == \E l \in IntLevels : int_controller_set(l) /\ UNCHANGED notInt

IntClear == \E l \in IntLevels : int_controller_clear(l) /\ UNCHANGED notInt

InitInt ==
    /\ g_int_controller_pending = 0
    /\ g_int_controller_highest_int = 0
    /\ cpu_int_level = 0
    /\ int_call = [op |-> "none", value |-> 0, changed |-> FALSE, irq |-> <<>>]

----------------------------------------------------------------------------
(* Device interrupt hooks, main.c:295-318.  Both hooks hand their line to   *)
(* the CPU core through m68k_set_virq(level, active); neither calls         *)
(* int_controller_set or int_controller_clear.                              *)

\* m68k_set_virq(level, active): the state of each virtual IRQ line as the
\* hooks last set it
m68k_set_virq(level, active) == [virq EXCEPT ![level] = active]

via_irq_set_level2(status) ==
    /\ virq' = m68k_set_virq(2, IF status # 0 THEN 1 ELSE 0)
    /\ UNCHANGED <<scc_irq_state, intVars>>

via_irq_set(status) ==
    /\ virq' = m68k_set_virq(1, IF status # 0 THEN 1 ELSE 0)
    /\ UNCHANGED <<scc_irq_state, intVars>>

scc_irq_set(status) ==
    /\ virq' = m68k_set_virq(2, IF status # 0 THEN 1 ELSE 0)
    /\ scc_irq_state' = status
    /\ UNCHANGED intVars

\* the status values a device reports: de-asserted, asserted, and an
\* asserted status other than 1
IrqStatus == {0, 1, 2}

irqFrame == <<ENABLE_AUDIO, memVars, faultVars, loopVars, kbdVars, memHist, kbdHist,
              bootVars, mouseVars, audioVars, iwm_wr, hostVars>>

\* the VIA calls its irq_set callback from a register access or from via_tick
ViaIrqSet ==
    /\ pc \in {"execute", "tick"}
    /\ \E status \in IrqStatus :
         /\ via_irq_set(status)
         /\ irq_hist' = [irq_hist EXCEPT !.via = status]
    /\ UNCHANGED irqFrame

\* the SCC calls its irq_set callback from a register access
SccIrqSet ==
    /\ pc = "execute"
    /\ \E status \in IrqStatus :
         /\ scc_irq_set(status)
         /\ irq_hist' = [irq_hist EXCEPT !.scc = status]
    /\ UNCHANGED irqFrame

InitIrq ==
    /\ virq = [l \in IntLevels |-> 0]
    /\ scc_irq_state = 0
    /\ irq_hist = [via |-> -1, scc |-> -1]

----------------------------------------------------------------------------
(* Memory map.  The region predicates and accessors are the macros of       *)
(* machw.h; they are taken from the address table of the specification.     *)

ROM_ADDR == 4194304                 \* 0x400000

RAM_HIGH_ADDR == 6291456            \* 0x600000

RAM_SIZE == 131072                  \* 128 KiB

ROM_SIZE == 131072                  \* 128 KiB

PV_SONY_ADDR == 15728745            \* 0xF00069, a word of the dummy region

InRange(a, lo, hi) == lo <= a /\ a <= hi

\* overlay: ROM at 0x000000-0x0FFFFF and 0x200000-0x2FFFFF; always at 0x400000
IS_ROM(address) ==
    \/ overlay # 0 /\ InRange(address, 0, 1048575)
    \/ overlay # 0 /\ InRange(address, 2097152, 3145727)
    \/ InRange(address, ROM_ADDR, ROM_ADDR + 1048575)

\* RAM at 0x600000-0x6FFFFF; with overlay cleared also at 0x000000-0x3FFFFF
IS_RAM(address) ==
    \/ overlay = 0 /\ InRange(address, 0, ROM_ADDR - 1)
    \/ InRange(address, RAM_HIGH_ADDR, RAM_HIGH_ADDR + 1048575)

IS_SCC_RD(address) == InRange(address, 8388608, 10485759)      \* 0x800000-0x9FFFFF

IS_SCC_WR(address) == InRange(address, 10485760, 12582911)     \* 0xA00000-0xBFFFFF

IS_IWM(address) == InRange(address, 12582912, 14680063)        \* 0xC00000-0xDFFFFF

IS_VIA(address) == InRange(address, 15204352, 15728639)        \* 0xE80000-0xEFFFFF

IS_DUMMY(address) == InRange(address, 15728640, 16777215)      \* 0xF00000-0xFFFFFF

IS_TESTSW(address) == InRange(address, 15728640, 16777215)     \* 0xF00000-0xFFFFFF

\* address & (RAM_SIZE - 1), address & (ROM_SIZE - 1)
CLAMP_RAM_ADDR(address) == address % RAM_SIZE

CLAMP_ROM_ADDR(address) == address % ROM_SIZE

\* low-memory globals of the Mac that umac_mouse writes, main.c:623-626
MTemp_h == 2090                     \* 0x82a

MTemp_v == 2088                     \* 0x828

CrsrNew == 2254                     \* 0x8ce

CrsrCouple == 2255                  \* 0x8cf

\* the offsets of the two images that the model keeps
RamOffs == (0..3) \cup {MTemp_v, MTemp_v + 1, MTemp_h, MTemp_h + 1, CrsrNew, CrsrCouple}

RomOffs == 0..3

\* unaligned big-endian accessors.  A 32-bit value v is kept as the pair
\* <<v >> 16, v & 0xffff>> of its 16-bit halves.
RAM_RD16(off) == ram[off] * 256 + ram[off + 1]

RAM_RD32(off) == <<RAM_RD16(off), RAM_RD16(off + 2)>>

ROM_RD16(off) == rom[off] * 256 + rom[off + 1]

ROM_RD32(off) == <<ROM_RD16(off), ROM_RD16(off + 2)>>

\* the version word of a Mac Plus v3 ROM, rom.c:42, big-endian at offset 0
RomImage == (0 :> 77) @@ (1 :> 31) @@ (2 :> 129) @@ (3 :> 114)

----------------------------------------------------------------------------
(* ROM patcher, rom.c.  A ROM image is a function from byte offsets to      *)
(* bytes, kept at every offset the patcher can write and at the offsets     *)
(* next to them.  A 32-bit version word is the pair of its 16-bit halves.   *)

ROM_PLUSv3_VERSION == <<19743, 33138>>          \* 0x4d1f8172

ROM_PLUSv3_SONYDRV == 97584                     \* 0x17d30

M68K_INST_NOP == 20081                          \* 0x4e71

\* sizeof(sony_driver): the replacement driver of sonydrv.h is 64 bytes
SonyLen == 64

\* the bytes of sony_driver
sony_driver(i) == (i * 29 + 96) % 256

\* rom_get_version, rom.c:70-77: the first four bytes, big-endian
rom_get_version(r) == <<r[0] * 256 + r[1], r[2] * 256 + r[3]>>

\* ROM_WR8, ROM_WR16, ROM_WR32, rom.c:80-92: byte k of the big-endian store
\* of the low 8 * width bits of data
ROM_WR(width, data, k) == (data \div Pow2(8 * (width - 1 - k))) % 256

\* a store of the patcher is <<width in bytes, offset, data>>.  The stores of
\* a list that reach the byte at offset o:
StoresAt(ops, o) == {i \in 1..Len(ops) : ops[i][2] <= o /\ o < ops[i][2] + ops[i][1]}

\* the image after the stores of a list, made in order: a byte holds what
\* the last store that reached it wrote
Stores(r, ops) ==
    LET touched == UNION {ops[i][2]..(ops[i][2] + ops[i][1] - 1) : i \in 1..Len(ops)}
    IN  [o \in DOMAIN r \cup touched |->
            IF StoresAt(ops, o) = {} THEN r[o]
            ELSE LET i == CHOOSE n \in StoresAt(ops, o) :
                             \A m \in StoresAt(ops, o) : m <= n
                 IN  ROM_WR(ops[i][1], ops[i][3], o - ops[i][2])]

\* rom.c:103-108: the checksum comparison, the driver and its doorbell address
BasePatch_clobbers_version ==
    <<<<2, 0, 45953>>>>
    \o [i \in 1..SonyLen |-> <<1, ROM_PLUSv3_SONYDRV + i - 1, sony_driver(i - 1)>>]
    \o <<<<4, ROM_PLUSv3_SONYDRV + SonyLen - 4, PV_SONY_ADDR>>>>

BasePatch ==
    <<<<2, 3474, 45953>>>>                                  \* 0xd92 <- 0xb381
    \o [i \in 1..SonyLen |-> <<1, ROM_PLUSv3_SONYDRV + i - 1, sony_driver(i - 1)>>]
    \o <<<<4, ROM_PLUSv3_SONYDRV + SonyLen - 4, PV_SONY_ADDR>>>>

\* rom.c:115
MemPatchApplies_inclusive(ram_size) == ram_size >= 128 * 1024 /\ ram_size < 512 * 1024

MemPatchApplies(ram_size) == ram_size > 128 * 1024 /\ ram_size < 512 * 1024

\* rom.c:117-133
MemPatch(ram_size) ==
    <<<<2, 886, M68K_INST_NOP>>, <<2, 888, M68K_INST_NOP>>,      \* 0x376 .. 0x37c
      <<2, 890, M68K_INST_NOP>>, <<2, 892, M68K_INST_NOP>>,
      <<2, 886, 10876>>,                                        \* 0x2a7c
      <<2, 888, ram_size \div 65536>>,
      <<2, 890, ram_size % 65536>>,
      <<2, 306, 24576>>,                                        \* 0x132 <- 0x6000
      <<4, 658, ram_size - 768>>>>                              \* 0x292

\* rom.c:136
ScreenPatchApplies_always(width, height) == TRUE

ScreenPatchApplies(width, height) == width # 512 \/ height # 342

\* rom.c:137-139
screen_size(width, height) == (width * height) \div 8

screen_distance_from_top(width, height) == screen_size(width, height) + 896

screen_base(width, height) == 4194304 - screen_distance_from_top(width, height)

\* SBCOORD, rom.c:141
SBCOORD(width, height, x, y) ==
    screen_base(width, height) + ((width \div 8) * y) + (x \div 8)

\* rom.c:161, 169, 170: the space for the out-of-line patches
patch_0 == 70                                   \* 0x46

patch_1 == patch_0 + 10

patch_2 == 50                                   \* 0x32

\* (disp_width / 8) >= 128, rom.c:171, 266, 281
IsWide(width) == (width \div 8) >= 128

\* rom.c:158-165
ScreenHead_branch_from_opcode(width, height) ==
    <<<<2, 66, 24576>>,
      <<2, 68, 98 - 68>>,
      <<2, patch_0 + 0, 39932>>,
      <<4, patch_0 + 2, screen_distance_from_top(width, height)>>,
      <<2, patch_0 + 6, 24576>>,
      <<2, patch_0 + 8, 932 - (patch_0 + 6)>>>>

ScreenHead(width, height) ==
    <<<<2, 66, 24576>>,                                  \* 0x42 <- bra
      <<2, 68, 98 - 68>>,                                \* 0x44 <- 0x62 - 0x44
      <<2, patch_0 + 0, 39932>>,                         \* 0x9bfc
      <<4, patch_0 + 2, screen_distance_from_top(width, height)>>,
      <<2, patch_0 + 6, 24576>>,
      <<2, patch_0 + 8, 932 - (patch_0 + 8)>>>>          \* back to 0x3a4

\* rom.c:172-175
WidePatch1(width) ==
    <<<<2, patch_1 + 0, 14908>>,                         \* 0x3a3c
      <<2, patch_1 + 2, width \div 8>>,
      <<2, patch_1 + 4, 49861>>,                         \* 0xc2c5
      <<2, patch_1 + 6, 20085>>>>                        \* 0x4e75

\* rom.c:186-193
WidePatch2(width) ==
    <<<<2, 46, 24576>>,                                  \* 0x2e <- bra
      <<2, 48, 98 - 48>>,                                \* 0x30 <- 0x62 - 0x30
      <<2, patch_2 + 0, 12348>>,                         \* 0x303c
      <<2, patch_2 + 2, width \div 8>>,
      <<2, patch_2 + 4, 16888>>,                         \* 0x41f8
      <<2, patch_2 + 6, 2188>>,                          \* 0x088c
      <<2, patch_2 + 8, 20085>>>>                        \* 0x4e75

\* rom.c:232-288
ScreenBody(width, height) ==
    <<<<4, 138, screen_base(width, height)>>,                                \* 0x8a
      <<4, 326, screen_base(width, height)>>,                                \* 0x146
      <<4, 356, SBCOORD(width, height, (width \div 2) - 24, (height \div 2) + 8)>>,
      <<2, 392, width \div 8>>,                                              \* 0x188
      <<2, 404, width \div 8>>,                                              \* 0x194
      <<2, 412, ((6 * width) \div 8) - 1>>,                                  \* 0x19c
      <<4, 420, SBCOORD(width, height, (width \div 2) - 8, (height \div 2) + 8 + 8)>>,
      <<2, 494, (screen_size(width, height) \div 4) - 1>>,                   \* 0x1ee
      <<4, 3852, SBCOORD(width, height, (width \div 2) - 16, (height \div 2) - 26)>>,
      <<4, 3864, SBCOORD(width, height, (width \div 2) - 8, (height \div 2) - 20)>>,
      <<4, 2016, SBCOORD(width, height, (width \div 2) - 16, (height \div 2) - 26)>>,
      <<4, 2034, SBCOORD(width, height, (width \div 2) - 8, (height \div 2) - 11)>>,
      <<2, 928, 24576>>,                                                     \* 0x3a0
      <<2, 930, patch_0 - 930>>,                                             \* 0x3a2
      <<2, 1140, width \div 8>>,                                             \* 0x474
      <<2, 1172, height>>,                                                   \* 0x494
      <<2, 1176, width>>,                                                    \* 0x498
      <<2, 2574, height>>,                                                   \* 0xa0e
      <<2, 2576, width>>,                                                    \* 0xa10
      <<2, 3810, (width \div 8) - 4>>,                                       \* 0xee2
      <<2, 3826, width \div 8>>,                                             \* 0xef2
      <<2, 3894, (width \div 8) - 2>>>>                                      \* 0xf36
    \o (IF IsWide(width)
        THEN <<<<2, 7372, 20154>>,                                           \* 0x1ccc
               <<2, 7374, patch_2 - 7374>>,                                  \* 0x1cce
               <<2, 7376, M68K_INST_NOP>>>>                                  \* 0x1cd0
        ELSE <<<<1, 7377, width \div 8>>>>)                                  \* 0x1cd1
    \o <<<<2, 7496, width - 32>>,                                            \* 0x1d48
         <<2, 7502, width - 32>>,                                            \* 0x1d4e
         <<2, 7534, height - 16>>,                                           \* 0x1d6e
         <<2, 7540, height>>,                                                \* 0x1d74
         <<1, 7571, width \div 8>>,                                          \* 0x1d93
         <<2, 7784, height>>>>                                               \* 0x1e68
    \o (IF IsWide(width)
        THEN <<<<2, 7570, 20154>>,                                           \* 0x1d92
               <<2, 7572, patch_1 - 7572>>>>                                 \* 0x1d94
        ELSE <<<<1, 7571, width \div 8>>>>)
    \o <<<<2, 7790, width>>,                                                 \* 0x1e6e
         <<2, 7810, height>>>>                                               \* 0x1e82

\* rom_patch_plusv3, rom.c:95-293: the value returned and the image left
rom_patch_plusv3(r, width, height, ram_size) ==
    LET r1 == Stores(r, BasePatch)
        r2 == IF MemPatchApplies(ram_size) THEN Stores(r1, MemPatch(ram_size)) ELSE r1
        r3 == Stores(r2, ScreenHead(width, height))
        r4 == Stores(r3, WidePatch1(width))
        r5 == Stores(r4, WidePatch2(width))
    IN  IF ~ScreenPatchApplies(width, height) THEN [ret |-> 0, rom |-> r2]
        ELSE IF ~IsWide(width)
        THEN [ret |-> 0, rom |-> Stores(r3, ScreenBody(width, height))]
        ELSE IF patch_1 + 8 > 88 THEN [ret |-> -1, rom |-> r4]
        ELSE IF patch_2 + 10 > 65 THEN [ret |-> -1, rom |-> r5]
        ELSE [ret |-> 0, rom |-> Stores(r5, ScreenBody(width, height))]

\* rom_patch1, rom.c:295-311
rom_patch1_any_version(r, width, height, ram_size) ==
    rom_patch_plusv3(r, width, height, ram_size)

rom_patch1(r, width, height, ram_size) ==
    IF rom_get_version(r) = ROM_PLUSv3_VERSION
    THEN rom_patch_plusv3(r, width, height, ram_size)
    ELSE [ret |-> -1, rom |-> r]

\* the offsets of a ROM image that the model keeps: every offset the patcher
\* can write, the offsets next to them, the version word and the last byte
RomPatchOffs ==
    (0..5) \cup (44..90) \cup (136..143) \cup (304..331) \cup (354..361)
    \cup (390..425) \cup (492..497) \cup (656..663) \cup (884..895)
    \cup (926..933) \cup (1138..1179) \cup (2014..2039) \cup (2572..2579)
    \cup (3472..3477) \cup (3808..3829) \cup (3850..3869) \cup (3892..3897)
    \cup (7370..7379) \cup (7494..7505) \cup (7532..7543) \cup (7568..7575)
    \cup (7782..7793) \cup (7808..7813)
    \cup ((ROM_PLUSv3_SONYDRV - 2)..(ROM_PLUSv3_SONYDRV + SonyLen + 1))
    \cup {ROM_SIZE - 1}

\* a Mac Plus v3 ROM as loaded from its file: the version word, then bytes
\* that stand for the original code
PlusV3Rom ==
    [o \in RomPatchOffs |->
        IF o = 0 THEN 77 ELSE IF o = 1 THEN 31 ELSE IF o = 2 THEN 129
        ELSE IF o = 3 THEN 114 ELSE (o * 7 + 13) % 256]

\* the images the host may load: the v3 ROM and two ROMs of another version
LoadedRoms == {PlusV3Rom, [PlusV3Rom EXCEPT ![0] = 0], [PlusV3Rom EXCEPT ![3] = 115]}

\* DISP_WIDTH, DISP_HEIGHT and UMAC_MEMSIZE * 1024 of the builds modelled:
\* 128 KiB, 129 KiB, 256 KiB, 511 KiB and 512 KiB of RAM
DispWidths == {512, 640, 1024}

DispHeights == {342, 480}

MemSizes == {131072, 132096, 262144, 523264, 524288}

\* a patched image may be dumped (-W) and loaded again by a later run
MaxPatches == 2

bootFrame == <<intVars, ENABLE_AUDIO, overlay, cpu_read_instr, oldval, ram, iwm_regs,
               via_regs, faultVars, loopVars, kbdVars, memHist, kbdHist, irqVars,
               mouseVars, audioVars, iwm_wr, hostVars, disp_width, disp_height,
               mem_size, rom_orig>>

\* rom_patch, rom.c:61-63, called by main, unix_main.c:194
RomPatch ==
    /\ host_pc = "start"
    /\ npatch < MaxPatches
    /\ LET res == rom_patch1(rom, disp_width, disp_height, mem_size)
       IN  /\ rom' = res.rom
           /\ patch_ret' = res.ret
           /\ rom_once' = IF npatch = 0 THEN res.rom ELSE rom_once
    /\ npatch' = npatch + 1
    /\ host_pc' = host_pc
    /\ UNCHANGED bootFrame

\* main, unix_main.c:194-197: a failed patch ends the program
HostRefuses ==
    /\ host_pc = "start"
    /\ npatch > 0
    /\ patch_ret # 0
    /\ host_pc' = "exited"
    /\ UNCHANGED <<rom, patch_ret, npatch, rom_once>>
    /\ UNCHANGED bootFrame

\* main, unix_main.c:342: umac_init, then the main loop
HostStartsEmulator ==
    /\ host_pc = "start"
    /\ npatch > 0
    /\ patch_ret = 0
    /\ host_pc' = "running"
    /\ UNCHANGED <<rom, patch_ret, npatch, rom_once>>
    /\ UNCHANGED bootFrame

\* the emulator is running on a patched image
InitBooted ==
    /\ host_pc = "running"
    /\ disp_width = 512
    /\ disp_height = 342
    /\ mem_size = RAM_SIZE
    /\ patch_ret = 0
    /\ npatch = 1
    /\ rom_orig = rom
    /\ rom_once = rom

\* the host has loaded a ROM file and has not patched it yet
InitLoaded ==
    /\ host_pc = "start"
    /\ rom \in LoadedRoms
    /\ disp_width \in DispWidths
    /\ disp_height \in DispHeights
    /\ mem_size \in MemSizes
    /\ patch_ret = -2
    /\ npatch = 0
    /\ rom_orig = rom
    /\ rom_once = rom

----------------------------------------------------------------------------
(* exit_error, main.c:118-142.  With the guard already set it returns to    *)
(* its caller; otherwise it sets sim_done and long-jumps to the setjmp of   *)
(* umac_loop.                                                               *)

exit_error_forgets_done ==
    /\ fault_in_call' = TRUE
    /\ IF guard_val # 0
       THEN UNCHANGED <<guard_val, sim_done, pc>>
       ELSE /\ guard_val' = 1
            /\ sim_done' = sim_done
            /\ pc' = "setjmp"

exit_error_returns ==
    /\ fault_in_call' = TRUE
    /\ IF guard_val # 0
       THEN UNCHANGED <<guard_val, sim_done, pc>>
       ELSE /\ guard_val' = 1
            /\ sim_done' = 1
            /\ pc' = pc

exit_error_unguarded ==
    /\ fault_in_call' = TRUE
    /\ guard_val' = 1
    /\ sim_done' = 1
    /\ pc' = "setjmp"

exit_error ==
    /\ fault_in_call' = TRUE
    /\ IF guard_val # 0
       THEN UNCHANGED <<guard_val, sim_done, pc>>
       ELSE /\ guard_val' = 1
            /\ sim_done' = 1
            /\ pc' = "setjmp"

\* the caller goes on after an exit_error call (no long jump)
Returns == guard_val # 0

----------------------------------------------------------------------------
(* VIA port A callback, main.c:147-169                                      *)

update_overlay_layout(ov) == IF ov # 0 THEN "overlay" ELSE "normal"

via_ra_changed_wrong_bit(val) ==
    LET ov == Bit(val, 5)
    IN  /\ overlay' = ov
        /\ cpu_read_instr' = IF Bit(oldval, 4) # Bit(val, 4)
                             THEN update_overlay_layout(ov) ELSE cpu_read_instr
        /\ oldval' = IF ENABLE_AUDIO THEN val ELSE oldval

via_ra_changed(val) ==
    LET ov == Bit(val, 4)                              \* !!(val & 0x10)
    IN  /\ overlay' = ov
        /\ cpu_read_instr' = IF Bit(oldval, 4) # Bit(val, 4)
                             THEN update_overlay_layout(ov) ELSE cpu_read_instr
        /\ oldval' = IF ENABLE_AUDIO THEN val ELSE oldval

\* an access record: the accessor, the address, the value read or written,
\* the region that served it, and the command tags handed to disc_pv_hook
Access(op, address, value, handler, tags) ==
    [op |-> op, addr |-> address, val |-> value, by |-> handler, disc |-> tags]

\* port A values the VIA reports: 0xFF and 0xEF (bit 4 clear)
RaVals == {255, 239}

ViaRaChanged ==
    /\ pc = "execute"
    /\ \E val \in RaVals :
         /\ via_ra_changed(val)
         /\ ovl_hist' = IF Bit(val, 4) = 0 THEN "cleared"
                        ELSE IF ovl_hist = "never_cleared" THEN "never_cleared"
                        ELSE "set_again"
    /\ last_acc' = Access("none", 0, 0, "none", <<>>)
    /\ UNCHANGED <<intVars, ENABLE_AUDIO, ram, rom, iwm_regs, via_regs, faultVars,
                   loopVars, kbdVars, kbdHist, extVars>>

\* umac_reset, main.c:645-649: overlay = 1 and m68k_pulse_reset(), which
\* resets the CPU core; the devices and the done flag are not touched
umac_reset_clears_done ==
    /\ overlay' = 1
    /\ sim_done' = 0
    /\ UNCHANGED <<cpu_read_instr, oldval, via_regs>>

umac_reset ==
    /\ overlay' = 1
    /\ UNCHANGED <<cpu_read_instr, oldval, via_regs, sim_done>>

UmacReset ==
    /\ pc = "host"
    /\ umac_reset
    /\ ovl_hist' = IF ovl_hist = "never_cleared" THEN "never_cleared" ELSE "reset"
    /\ last_acc' = Access("none", 0, 0, "none", <<>>)
    /\ UNCHANGED <<intVars, ENABLE_AUDIO, ram, rom, iwm_regs, guard_val,
                   loopVars, kbdVars, kbdHist, extVars>>

----------------------------------------------------------------------------
(* CPU data accessors, main.c:400-426 and 453-488                           *)

\* what cpu_read_word returns when it returns without a fatal fault
cpu_read_word_value(address) ==
    IF IS_RAM(address) THEN RAM_RD16(CLAMP_RAM_ADDR(address))
    ELSE IF IS_ROM(address) THEN ROM_RD16(CLAMP_ROM_ADDR(address))
    ELSE 0

cpu_read_long_value(address) ==
    IF IS_RAM(address) THEN RAM_RD32(CLAMP_RAM_ADDR(address))
    ELSE IF IS_ROM(address) THEN ROM_RD32(CLAMP_ROM_ADDR(address))
    ELSE <<0, 0>>

ReadFaults(address) == ~IS_RAM(address) /\ ~IS_ROM(address) /\ ~IS_TESTSW(address)

RdRegion(address) ==
    IF IS_RAM(address) THEN "ram" ELSE IF IS_ROM(address) THEN "rom"
    ELSE IF IS_TESTSW(address) THEN "testsw" ELSE "fatal"

cpu_read_word(address) ==
    IF ReadFaults(address)
    THEN /\ exit_error
         /\ last_acc' = Access("rdw", address, IF Returns THEN 0 ELSE -1, "fatal", <<>>)
    ELSE /\ last_acc' = Access("rdw", address, cpu_read_word_value(address),
                               RdRegion(address), <<>>)
         /\ UNCHANGED <<faultVars, pc, fault_in_call>>

cpu_read_long(address) ==
    IF ReadFaults(address)
    THEN /\ exit_error
         /\ last_acc' = Access("rdl", address, IF Returns THEN <<0, 0>> ELSE <<-1, -1>>,
                               "fatal", <<>>)
    ELSE /\ last_acc' = Access("rdl", address, cpu_read_long_value(address),
                               RdRegion(address), <<>>)
         /\ UNCHANGED <<faultVars, pc, fault_in_call>>

\* addresses the modelled CPU reads: address 0, a VIA register (0xEFE1FE) and
\* the test switch (0xF00000)
RdAddrs == {0, 15720958, 15728640}

rdFrame == <<intVars, ENABLE_AUDIO, memVars, cycles, used_cycles, global_cycles,
             global_time_us, loop_ret, nloops, loop_trace, loop_args, kbdVars,
             ovl_hist, kbdHist, extVars>>

CpuReadWord ==
    /\ pc = "execute"
    /\ \E a \in RdAddrs : cpu_read_word(a)
    /\ UNCHANGED rdFrame

CpuReadLong ==
    /\ pc = "execute"
    /\ \E a \in RdAddrs : cpu_read_long(a)
    /\ UNCHANGED rdFrame

\* iwm_write, main.c:325-334
iwm_write(address, data) == [iwm_regs EXCEPT ![(address \div 512) % 16] = data]

\* via_write (via.c): the register index is bits 12:9 of the address, and the
\* register written latches the byte
via_write(address, data) == [via_regs EXCEPT ![(address \div 512) % 16] = data]

\* the registers as via_init leaves them
ViaPostInit == [r \in 0..15 |-> 0]

cpu_write_byte_into_rom(address, value) ==
    IF IS_RAM(address)
    THEN /\ ram' = [ram EXCEPT ![CLAMP_RAM_ADDR(address)] = value % 256]
         /\ last_acc' = Access("wrb", address, value, "ram", <<>>)
         /\ UNCHANGED <<rom, iwm_regs, via_regs, faultVars, pc, fault_in_call>>
    ELSE IF IS_ROM(address)
    THEN /\ rom' = [rom EXCEPT ![CLAMP_ROM_ADDR(address)] = value % 256]
         /\ last_acc' = Access("wrb", address, value, "rom", <<>>)
         /\ UNCHANGED <<ram, iwm_regs, via_regs, faultVars, pc, fault_in_call>>
    ELSE IF IS_VIA(address)
    THEN /\ via_regs' = via_write(address, value % 256)
         /\ last_acc' = Access("wrb", address, value, "via", <<>>)
         /\ UNCHANGED <<ram, rom, iwm_regs, faultVars, pc, fault_in_call>>
    ELSE IF IS_IWM(address)
    THEN /\ iwm_regs' = iwm_write(address, value % 256)
         /\ last_acc' = Access("wrb", address, value, "iwm", <<>>)
         /\ UNCHANGED <<ram, rom, via_regs, faultVars, pc, fault_in_call>>
    ELSE IF IS_SCC_WR(address)
    THEN /\ last_acc' = Access("wrb", address, value, "scc", <<>>)
         /\ UNCHANGED <<ram, rom, iwm_regs, via_regs, faultVars, pc, fault_in_call>>
    ELSE IF IS_DUMMY(address)
    THEN /\ last_acc' = Access("wrb", address, value, "dummy", <<>>)
         /\ UNCHANGED <<ram, rom, iwm_regs, via_regs, faultVars, pc, fault_in_call>>
    ELSE IF address = PV_SONY_ADDR
    THEN /\ last_acc' = Access("wrb", address, value, "disc", <<value>>)
         /\ \E r \in {0, 1} :                          \* result of disc_pv_hook
              IF r # 0 THEN exit_error
              ELSE UNCHANGED <<faultVars, pc, fault_in_call>>
         /\ UNCHANGED <<ram, rom, iwm_regs, via_regs>>
    ELSE /\ last_acc' = Access("wrb", address, value, "ignored", <<>>)
         /\ UNCHANGED <<ram, rom, iwm_regs, via_regs, faultVars, pc, fault_in_call>>

cpu_write_byte(address, value) ==
    IF IS_RAM(address)
    THEN /\ ram' = [ram EXCEPT ![CLAMP_RAM_ADDR(address)] = value % 256]
         /\ last_acc' = Access("wrb", address, value, "ram", <<>>)
         /\ UNCHANGED <<rom, iwm_regs, via_regs, faultVars, pc, fault_in_call>>
    ELSE IF IS_VIA(address)
    THEN /\ via_regs' = via_write(address, value % 256)
         /\ last_acc' = Access("wrb", address, value, "via", <<>>)
         /\ UNCHANGED <<ram, rom, iwm_regs, faultVars, pc, fault_in_call>>
    ELSE IF IS_IWM(address)
    THEN /\ iwm_regs' = iwm_write(address, value % 256)
         /\ last_acc' = Access("wrb", address, value, "iwm", <<>>)
         /\ UNCHANGED <<ram, rom, via_regs, faultVars, pc, fault_in_call>>
    ELSE IF IS_SCC_WR(address)
    THEN /\ last_acc' = Access("wrb", address, value, "scc", <<>>)
         /\ UNCHANGED <<ram, rom, iwm_regs, via_regs, faultVars, pc, fault_in_call>>
    ELSE IF IS_DUMMY(address)
    THEN /\ last_acc' = Access("wrb", address, value, "dummy", <<>>)
         /\ UNCHANGED <<ram, rom, iwm_regs, via_regs, faultVars, pc, fault_in_call>>
    ELSE IF address = PV_SONY_ADDR
    THEN /\ last_acc' = Access("wrb", address, value, "disc", <<value>>)
         /\ \E r \in {0, 1} :                          \* result of disc_pv_hook
              IF r # 0 THEN exit_error
              ELSE UNCHANGED <<faultVars, pc, fault_in_call>>
         /\ UNCHANGED <<ram, rom, iwm_regs, via_regs>>
    ELSE /\ last_acc' = Access("wrb", address, value, "ignored", <<>>)
         /\ UNCHANGED <<ram, rom, iwm_regs, via_regs, faultVars, pc, fault_in_call>>

\* addresses the modelled CPU writes bytes to: address 0, high RAM, a VIA
\* register (0xEFE1FE), an SCC register (0xBFFFF9), the dummy region
\* (0xF00000) and the disc doorbell
WrAddrs == {0, RAM_HIGH_ADDR, 15720958, 12582905, 15728640, PV_SONY_ADDR}

\* byte values the modelled CPU writes
WrVals == {1, 170}

CpuWriteByteAt(addrs) ==
    /\ pc = "execute"
    /\ \E a \in addrs, v \in WrVals : cpu_write_byte(a, v)
    /\ UNCHANGED <<intVars, ENABLE_AUDIO, overlay, cpu_read_instr, oldval,
                   cycles, used_cycles, global_cycles, global_time_us, loop_ret,
                   nloops, loop_trace, loop_args, kbdVars, ovl_hist, kbdHist,
                   extVars>>

CpuWriteByte == CpuWriteByteAt(WrAddrs)

\* RAM_WR8, RAM_WR16, RAM_WR32: big-endian stores to consecutive offsets; a
\* byte outside the offsets the model keeps is not recorded
RAM_WR8(r, off, value) ==
    IF off \in DOMAIN r THEN [r EXCEPT ![off] = value % 256] ELSE r

RAM_WR16(r, off, value) ==
    RAM_WR8(RAM_WR8(r, off, value \div 256), off + 1, value)

\* value is the pair <<value >> 16, value & 0xffff>>
RAM_WR32(r, off, value) ==
    RAM_WR16(RAM_WR16(r, off, value[1]), off + 2, value[2])

\* cpu_write_word, main.c:490-497
cpu_write_word_unchecked(address, value) ==
    /\ ram' = RAM_WR16(ram, CLAMP_RAM_ADDR(address), value)
    /\ last_acc' = Access("wrw", address, value, IF IS_RAM(address) THEN "ram" ELSE "ignored",
                          <<>>)

cpu_write_word(address, value) ==
    IF IS_RAM(address)
    THEN /\ ram' = RAM_WR16(ram, CLAMP_RAM_ADDR(address), value)
         /\ last_acc' = Access("wrw", address, value, "ram", <<>>)
    ELSE /\ last_acc' = Access("wrw", address, value, "ignored", <<>>)
         /\ UNCHANGED ram

\* cpu_write_long, main.c:499-506
cpu_write_long(address, value) ==
    IF IS_RAM(address)
    THEN /\ ram' = RAM_WR32(ram, CLAMP_RAM_ADDR(address), value)
         /\ last_acc' = Access("wrl", address, value, "ram", <<>>)
    ELSE /\ last_acc' = Access("wrl", address, value, "ignored", <<>>)
         /\ UNCHANGED ram

\* addresses the modelled CPU writes words and longs to: address 0, the ROM
\* at 0x400000, an SCC register (0xBFFFF9), an IWM register (0xC00000), a
\* VIA register (0xEFE1FE) and the disc doorbell
WideAddrs == {0, ROM_ADDR, 12582905, 12582912, 15720958, PV_SONY_ADDR}

\* the word 0x01AA and the long 0x01AA01AA
WordVals == {426}

LongVals == {<<426, 426>>}

wideFrame == <<intVars, ENABLE_AUDIO, overlay, cpu_read_instr, oldval, rom, iwm_regs,
               via_regs, faultVars, loopVars, kbdVars, ovl_hist, kbdHist, extVars>>

CpuWriteWord ==
    /\ pc = "execute"
    /\ \E a \in WideAddrs, v \in WordVals : cpu_write_word(a, v)
    /\ UNCHANGED wideFrame

CpuWriteLong ==
    /\ pc = "execute"
    /\ \E a \in WideAddrs, v \in LongVals : cpu_write_long(a, v)
    /\ UNCHANGED wideFrame

\* iwm_read, main.c:336-352
iwm_read_latched_only(address) == iwm_regs[(address \div 512) % 16]

iwm_read(address) ==
    LET r == (address \div 512) % 16
    IN  IF r = 8 THEN 255 ELSE IF r = 14 THEN 31 ELSE iwm_regs[r]

\* what via_read and scc_read (via.c, scc.c) may answer
DeviceBytes == {0, 255}

\* cpu_read_byte, main.c:377-398: the values it may return and what served it
cpu_read_byte_values(address) ==
    IF IS_RAM(address) THEN {ram[CLAMP_RAM_ADDR(address)]}
    ELSE IF IS_ROM(address) THEN {rom[CLAMP_ROM_ADDR(address)]}
    ELSE IF IS_VIA(address) THEN DeviceBytes
    ELSE IF IS_IWM(address) THEN {iwm_read(address)}
    ELSE IF IS_SCC_RD(address) THEN DeviceBytes
    ELSE {0}

RdByteRegion(address) ==
    IF IS_RAM(address) THEN "ram" ELSE IF IS_ROM(address) THEN "rom"
    ELSE IF IS_VIA(address) THEN "via" ELSE IF IS_IWM(address) THEN "iwm"
    ELSE IF IS_SCC_RD(address) THEN "scc" ELSE IF IS_DUMMY(address) THEN "dummy"
    ELSE "ignored"

cpu_read_byte(address) ==
    \E v \in cpu_read_byte_values(address) :
        last_acc' = Access("rdb", address, v, RdByteRegion(address), <<>>)

\* IWM addresses the modelled CPU uses: registers 0, 1, 8 and 14 at the base
\* of the region, and register 0 again at 0xDFE1FF
IwmAddrs == {12582912, 12583424, 12587008, 12590080, 14672383}

\* addresses the modelled CPU reads bytes from: the IWM, the RAM at 0x600000,
\* an SCC read register (0x9FFFF8) and the unmapped 0x700000
ByteRdAddrs == IwmAddrs \cup {RAM_HIGH_ADDR, 10485752, 7340032}

CpuReadByte ==
    /\ pc = "execute"
    /\ \E a \in ByteRdAddrs : cpu_read_byte(a)
    /\ UNCHANGED <<intVars, ENABLE_AUDIO, memVars, faultVars, loopVars, kbdVars,
                   ovl_hist, kbdHist, extVars>>

\* a byte write to the IWM
CpuWriteByteIwm ==
    /\ pc = "execute"
    /\ \E a \in IwmAddrs, v \in WrVals :
         /\ cpu_write_byte(a, v)
         /\ iwm_wr' = [iwm_wr EXCEPT ![(a \div 512) % 16] = v % 256]
    /\ UNCHANGED <<intVars, ENABLE_AUDIO, overlay, cpu_read_instr, oldval,
                   cycles, used_cycles, global_cycles, global_time_us, loop_ret,
                   nloops, loop_trace, loop_args, kbdVars, ovl_hist, kbdHist,
                   irqVars, bootVars, mouseVars, audioVars, hostVars>>

\* byte writes that no branch of cpu_write_byte handles: to the ROM at
\* 0x400000 and to the unmapped 0x700000
CpuWriteByteUnhandled == CpuWriteByteAt({ROM_ADDR, 7340032})

\* The bytes a word or long access touches.  cpu_read_word, cpu_read_long,
\* cpu_write_word and cpu_write_long mask the start address only
\* (main.c:403-405, 417-419, 493, 502); RAM_RD16/32, ROM_RD16/32 and
\* RAM_WR16/32 then go through the 2 or 4 consecutive offsets from it.
AccessWidth(op) ==
    IF op \in {"rdw", "wrw"} THEN 2 ELSE IF op \in {"rdl", "wrl"} THEN 4 ELSE 1

TouchedOffsets(acc) ==
    IF acc.by = "ram"
    THEN {CLAMP_RAM_ADDR(acc.addr) + i : i \in 0..(AccessWidth(acc.op) - 1)}
    ELSE IF acc.by = "rom"
    THEN {CLAMP_ROM_ADDR(acc.addr) + i : i \in 0..(AccessWidth(acc.op) - 1)}
    ELSE {}

BufferSize(acc) == IF acc.by = "ram" THEN RAM_SIZE ELSE ROM_SIZE

\* addresses in the last four bytes of the ROM at 0x400000 and of the RAM at
\* 0x600000
EndAddrs == {ROM_ADDR + ROM_SIZE - 4, ROM_ADDR + ROM_SIZE - 2, ROM_ADDR + ROM_SIZE - 1,
             RAM_HIGH_ADDR + RAM_SIZE - 4, RAM_HIGH_ADDR + RAM_SIZE - 2,
             RAM_HIGH_ADDR + RAM_SIZE - 1}

\* An access that leaves the buffer is undefined in C: the bytes past the end
\* are whatever lies behind the mapping, or the process is killed.
EndOutcomes == {"continues", "killed"}

EndOutcome(acc, outcome) ==
    IF \E o \in TouchedOffsets(acc) : o >= BufferSize(acc) THEN outcome ELSE "continues"

\* cpu_read_word and cpu_read_long, main.c:400-426, at the end of a buffer.
\* The model keeps no image of the last bytes of either buffer: a byte inside
\* is inside_byte, a byte past the end is past_byte.
CpuReadAtEnd ==
    /\ pc = "execute"
    /\ \E a \in EndAddrs, op \in {"rdw", "rdl"}, inside_byte \in DeviceBytes,
          past_byte \in DeviceBytes, outcome \in EndOutcomes :
          LET size == IF IS_RAM(a) THEN RAM_SIZE ELSE ROM_SIZE
              off == IF IS_RAM(a) THEN CLAMP_RAM_ADDR(a) ELSE CLAMP_ROM_ADDR(a)
              RD8(o) == IF o < size THEN inside_byte ELSE past_byte
              RD16(o) == RD8(o) * 256 + RD8(o + 1)
              RD32(o) == <<RD16(o), RD16(o + 2)>>
              acc == Access(op, a, IF op = "rdw" THEN RD16(off) ELSE RD32(off),
                            RdRegion(a), <<>>)
          IN  /\ last_acc' = acc
              /\ pc' = IF EndOutcome(acc, outcome) = "killed" THEN "killed" ELSE pc
    /\ UNCHANGED <<intVars, ENABLE_AUDIO, memVars, faultVars, cycles, used_cycles,
                   global_cycles, global_time_us, loop_ret, nloops, fault_in_call,
                   loop_trace, loop_args, kbdVars, ovl_hist, kbdHist, extVars>>

\* cpu_write_word and cpu_write_long, main.c:490-506, at the end of the RAM
CpuWriteAtEnd ==
    /\ pc = "execute"
    /\ \E a \in EndAddrs, op \in {"wrw", "wrl"}, outcome \in EndOutcomes :
          LET value == IF op = "wrw" THEN 43605 ELSE <<43605, 43605>>
              acc == Access(op, a, value, IF IS_RAM(a) THEN "ram" ELSE "ignored", <<>>)
          IN  /\ ram' = IF ~IS_RAM(a) THEN ram
                        ELSE IF op = "wrw" THEN RAM_WR16(ram, CLAMP_RAM_ADDR(a), value)
                        ELSE RAM_WR32(ram, CLAMP_RAM_ADDR(a), value)
              /\ last_acc' = acc
              /\ pc' = IF EndOutcome(acc, outcome) = "killed" THEN "killed" ELSE pc
    /\ UNCHANGED <<intVars, ENABLE_AUDIO, overlay, cpu_read_instr, oldval, rom,
                   iwm_regs, via_regs, faultVars, cycles, used_cycles, global_cycles,
                   global_time_us, loop_ret, nloops, fault_in_call, loop_trace,
                   loop_args, kbdVars, ovl_hist, kbdHist, extVars>>

InitMemState ==
    /\ ENABLE_AUDIO \in BOOLEAN
    /\ overlay = 1
    /\ cpu_read_instr = "overlay"
    /\ oldval = 16
    /\ ram = [o \in RamOffs |-> 0]
    /\ iwm_regs = [r \in 0..15 |-> 0]
    /\ via_regs = ViaPostInit
    /\ iwm_wr = [r \in 0..15 |-> 0]
    /\ sim_done = 0
    /\ guard_val = 0
    /\ ovl_hist = "never_cleared"
    /\ last_acc = Access("none", 0, 0, "none", <<>>)

InitMem == InitMemState /\ rom = RomImage

----------------------------------------------------------------------------
(* Keyboard service, main.c:226-292                                         *)

UMAC_EXECLOOP_QUANTUM == 5000

KBD_CMD_GET_MODEL == 22             \* 0x16

KBD_CMD_INQUIRY == 16               \* 0x10

KBD_MODEL == 5

KBD_RSP_NULL == 123                 \* 0x7b

\* a - b on uint64_t.  The model's times stay far below 2^31; a difference
\* that would wrap is some value above every threshold of the program.
U64Sub(a, b) == IF a >= b THEN a - b ELSE 2147483647

\* via_sr_tx, main.c:234-242
via_sr_tx_keeps_pending(data) ==
    /\ kbd_last_cmd' = IF kbd_last_cmd # 0 THEN kbd_last_cmd ELSE data
    /\ kbd_last_cmd_time' = global_time_us

via_sr_tx_keeps_time(data) ==
    /\ kbd_last_cmd' = data
    /\ kbd_last_cmd_time' = kbd_last_cmd_time

via_sr_tx(data) ==
    /\ kbd_last_cmd' = data
    /\ kbd_last_cmd_time' = global_time_us

\* kbd_rx, main.c:248-267: the bytes handed to via_sr_rx and the slot afterwards
kbd_rx_model_even(data) ==
    IF data = KBD_CMD_GET_MODEL
    THEN [rx |-> <<KBD_MODEL * 2>>, evt |-> kbd_pending_evt]
    ELSE IF data = KBD_CMD_INQUIRY
    THEN IF kbd_pending_evt = -1
         THEN [rx |-> <<KBD_RSP_NULL>>, evt |-> kbd_pending_evt]
         ELSE [rx |-> <<kbd_pending_evt>>, evt |-> -1]
    ELSE [rx |-> <<>>, evt |-> kbd_pending_evt]

kbd_rx_keeps_event(data) ==
    IF data = KBD_CMD_GET_MODEL
    THEN [rx |-> <<BitOr1(KBD_MODEL * 2, 0)>>, evt |-> kbd_pending_evt]
    ELSE IF data = KBD_CMD_INQUIRY
    THEN IF kbd_pending_evt = -1
         THEN [rx |-> <<KBD_RSP_NULL>>, evt |-> kbd_pending_evt]
         ELSE [rx |-> <<kbd_pending_evt>>, evt |-> kbd_pending_evt]
    ELSE [rx |-> <<>>, evt |-> kbd_pending_evt]

kbd_rx_answers_unknown(data) ==
    IF data = KBD_CMD_GET_MODEL
    THEN [rx |-> <<BitOr1(KBD_MODEL * 2, 0)>>, evt |-> kbd_pending_evt]
    ELSE IF kbd_pending_evt = -1
    THEN [rx |-> <<KBD_RSP_NULL>>, evt |-> kbd_pending_evt]
    ELSE [rx |-> <<kbd_pending_evt>>, evt |-> -1]

kbd_rx(data) ==
    IF data = KBD_CMD_GET_MODEL
    THEN [rx |-> <<BitOr1(KBD_MODEL * 2, 0)>>, evt |-> kbd_pending_evt]
    ELSE IF data = KBD_CMD_INQUIRY
    THEN IF kbd_pending_evt = -1
         THEN [rx |-> <<KBD_RSP_NULL>>, evt |-> kbd_pending_evt]
         ELSE [rx |-> <<kbd_pending_evt>>, evt |-> -1]
    ELSE [rx |-> <<>>, evt |-> kbd_pending_evt]

\* the test of kbd_check_work, main.c:276-277
kbd_work_due_at_quantum ==
    /\ kbd_last_cmd # 0
    /\ U64Sub(global_time_us, kbd_last_cmd_time) >= UMAC_EXECLOOP_QUANTUM

kbd_work_due_two_quanta ==
    /\ kbd_last_cmd # 0
    /\ U64Sub(global_time_us, kbd_last_cmd_time) > 2 * UMAC_EXECLOOP_QUANTUM

kbd_work_due ==
    /\ kbd_last_cmd # 0
    /\ U64Sub(global_time_us, kbd_last_cmd_time) > UMAC_EXECLOOP_QUANTUM

NoEvent == [scancode |-> 0, down |-> 0]

\* kbd_check_work, main.c:269-282
kbd_check_work ==
    LET r == kbd_rx(kbd_last_cmd)
        carries == kbd_last_cmd = KBD_CMD_INQUIRY /\ kbd_pending_evt # -1
    IN  IF kbd_work_due
        THEN /\ kbd_pending_evt' = r.evt
             /\ kbd_last_cmd' = 0
             /\ UNCHANGED kbd_last_cmd_time
             /\ slot_id' = IF r.evt = -1 THEN 0 ELSE slot_id
             /\ slot_ev' = IF r.evt = -1 THEN NoEvent ELSE slot_ev
             /\ deliveries' =
                  IF carries
                  THEN [last |-> [byte |-> r.rx[1], id |-> slot_id, ev |-> slot_ev,
                                  latest |-> evt_seq, lev |-> last_ev],
                        ids |-> deliveries.ids \cup {slot_id},
                        twice |-> deliveries.twice \/ slot_id \in deliveries.ids]
                  ELSE deliveries
             /\ tx_rec' = [tx_rec EXCEPT !.processed = TRUE,
                                         !.answered = r.rx # <<>>,
                                         !.nproc = tx_rec.nproc + 1]
             /\ last_poll' = [cmd |-> kbd_last_cmd, ran |-> TRUE, rx |-> r.rx,
                              evt_before |-> kbd_pending_evt, evt_after |-> r.evt,
                              waited |-> U64Sub(global_time_us, tx_rec.time)]
             /\ UNCHANGED <<evt_seq, last_ev, overwritten, ntx>>
        ELSE /\ last_poll' = [cmd |-> kbd_last_cmd, ran |-> FALSE, rx |-> <<>>,
                              evt_before |-> kbd_pending_evt,
                              evt_after |-> kbd_pending_evt, waited |-> 0]
             /\ UNCHANGED <<kbdVars, evt_seq, last_ev, slot_id, slot_ev, overwritten,
                            deliveries, tx_rec, ntx>>

\* scancode | (down ? 0 : 0x80), main.c:291
EventByte(scancode, down) == IF down # 0 THEN scancode ELSE BitOr1(scancode, 7)

\* umac_kbd_event, main.c:284-292
umac_kbd_event_keeps_first(scancode, down) ==
    /\ kbd_pending_evt' = IF kbd_pending_evt >= 0 THEN kbd_pending_evt
                          ELSE EventByte(scancode, down)
    /\ evt_seq' = evt_seq + 1
    /\ last_ev' = [scancode |-> scancode, down |-> down]
    /\ slot_id' = IF kbd_pending_evt >= 0 THEN slot_id ELSE evt_seq + 1
    /\ slot_ev' = IF kbd_pending_evt >= 0 THEN slot_ev
                  ELSE [scancode |-> scancode, down |-> down]
    /\ overwritten' = overwritten

umac_kbd_event(scancode, down) ==
    /\ kbd_pending_evt' = EventByte(scancode, down)
    /\ evt_seq' = evt_seq + 1
    /\ last_ev' = [scancode |-> scancode, down |-> down]
    /\ slot_id' = evt_seq + 1
    /\ slot_ev' = [scancode |-> scancode, down |-> down]
    /\ overwritten' = IF kbd_pending_evt >= 0 THEN overwritten \cup {slot_id}
                      ELSE overwritten

\* bytes the Mac shifts out: 0x00, INQUIRY, GET_MODEL, an unknown command
TxBytes == {0, KBD_CMD_INQUIRY, KBD_CMD_GET_MODEL, 85}

\* scancodes the host reports: a 7-bit one and one with bit 7 set
Scancodes == {51, 129}

MaxEvents == 2

MaxTx == 2

ViaSrTx ==
    /\ pc \in {"execute", "tick"}
    /\ ntx < MaxTx
    /\ ntx' = ntx + 1
    /\ \E data \in TxBytes :
         /\ via_sr_tx(data)
         /\ tx_rec' = [some |-> TRUE, byte |-> data, time |-> global_time_us,
                       processed |-> FALSE, answered |-> FALSE,
                       replaced |-> kbd_last_cmd, at |-> pc, loop |-> nloops,
                       lost |-> tx_rec.lost + IF kbd_last_cmd # 0 THEN 1 ELSE 0,
                       nz |-> tx_rec.nz + IF data # 0 THEN 1 ELSE 0,
                       nproc |-> tx_rec.nproc]
    /\ UNCHANGED <<intVars, ENABLE_AUDIO, memVars, faultVars, loopVars,
                   kbd_pending_evt, memHist, evt_seq, last_ev, slot_id, slot_ev,
                   overwritten, deliveries, last_poll, extVars>>

UmacKbdEvent ==
    /\ pc = "host"
    /\ evt_seq < MaxEvents
    /\ \E scancode \in Scancodes, down \in {0, 1} : umac_kbd_event(scancode, down)
    /\ UNCHANGED <<intVars, ENABLE_AUDIO, memVars, faultVars, loopVars,
                   kbd_last_cmd, kbd_last_cmd_time, memHist, deliveries, tx_rec,
                   last_poll, ntx, extVars>>

InitKbd ==
    /\ kbd_last_cmd = 0
    /\ kbd_last_cmd_time = 0
    /\ kbd_pending_evt = -1
    /\ evt_seq = 0
    /\ last_ev = NoEvent
    /\ slot_id = 0
    /\ slot_ev = NoEvent
    /\ overwritten = {}
    /\ deliveries = [last |-> [byte |-> 0, id |-> 0, ev |-> NoEvent,
                               latest |-> 0, lev |-> NoEvent],
                     ids |-> {}, twice |-> FALSE]
    /\ tx_rec = [some |-> FALSE, byte |-> 0, time |-> 0, processed |-> FALSE,
                 answered |-> FALSE, replaced |-> 0, at |-> "none", loop |-> 0,
                 lost |-> 0, nz |-> 0, nproc |-> 0]
    /\ last_poll = [cmd |-> 0, ran |-> FALSE, rx |-> <<>>, evt_before |-> -1,
                    evt_after |-> -1, waited |-> 0]
    /\ ntx = 0

----------------------------------------------------------------------------
(* Mouse, main.c:193-204 and 621-643                                        *)

\* via_rb_in, main.c:197-204
via_rb_in == IF via_mouse_pressed = 0 THEN BitOr1(via_quadbits, 3) ELSE via_quadbits

\* umac_mouse, main.c:621-643.  The sums are stored as 16-bit words.
umac_mouse_adds_dy(deltax, deltay, button) ==
    LET r1 == IF deltax # 0
              THEN RAM_WR16(ram, MTemp_h, (RAM_RD16(MTemp_h) + deltax) % 65536)
              ELSE ram
        r2 == IF deltay # 0
              THEN RAM_WR16(r1, MTemp_v, (RAM_RD16(MTemp_v) + deltay) % 65536)
              ELSE r1
        r3 == IF deltax # 0 \/ deltay # 0
              THEN RAM_WR8(r2, CrsrNew, ram[CrsrCouple])
              ELSE r2
    IN  /\ ram' = r3
        /\ via_mouse_pressed' = button
        /\ UNCHANGED via_quadbits

umac_mouse(deltax, deltay, button) ==
    LET r1 == IF deltax # 0
              THEN RAM_WR16(ram, MTemp_h, (RAM_RD16(MTemp_h) + deltax) % 65536)
              ELSE ram
        r2 == IF deltay # 0
              THEN RAM_WR16(r1, MTemp_v, (RAM_RD16(MTemp_v) - deltay) % 65536)
              ELSE r1
        r3 == IF deltax # 0 \/ deltay # 0
              THEN RAM_WR8(r2, CrsrNew, ram[CrsrCouple])
              ELSE r2
    IN  /\ ram' = r3
        /\ via_mouse_pressed' = button
        /\ UNCHANGED via_quadbits

\* the motion <<deltax, deltay>> the host reports
MouseMotions == {<<0, 0>>, <<-2, 1>>, <<1, 0>>, <<0, -2>>}

MaxMouse == 2

NoMouseCall == [deltax |-> 0, deltay |-> 0, button |-> 0, temp_h |-> 0, temp_v |-> 0,
                couple |-> 0, new |-> 0, rb |-> 0]

UmacMouse ==
    /\ pc = "host"
    /\ host_pc = "running"
    /\ nmouse < MaxMouse
    /\ \E motion \in MouseMotions, button \in {0, 1} :
         /\ umac_mouse(motion[1], motion[2], button)
         /\ mouse_call' = [deltax |-> motion[1], deltay |-> motion[2], button |-> button,
                           temp_h |-> RAM_RD16(MTemp_h), temp_v |-> RAM_RD16(MTemp_v),
                           couple |-> ram[CrsrCouple], new |-> ram[CrsrNew],
                           rb |-> via_rb_in]
    /\ nmouse' = nmouse + 1
    /\ UNCHANGED rb_read
    /\ UNCHANGED <<intVars, ENABLE_AUDIO, overlay, cpu_read_instr, oldval, rom, iwm_regs,
                   via_regs, faultVars, loopVars, kbdVars, memHist, kbdHist, irqVars,
                   bootVars, audioVars, iwm_wr, hostVars>>

\* the VIA reads port B through its rb_in callback
ViaRbIn ==
    /\ pc = "execute"
    /\ rb_read' = via_rb_in
    /\ UNCHANGED <<via_quadbits, via_mouse_pressed, nmouse, mouse_call>>
    /\ UNCHANGED <<intVars, ENABLE_AUDIO, memVars, faultVars, loopVars, kbdVars, memHist,
                   kbdHist, irqVars, bootVars, audioVars, iwm_wr, hostVars>>

\* the Mac sets CrsrCouple, here through the RAM at 0x600000
CpuWriteCrsrCouple == CpuWriteByteAt({RAM_HIGH_ADDR + CrsrCouple})

InitMouse ==
    /\ via_quadbits = 0
    /\ via_mouse_pressed = 0
    /\ nmouse = 0
    /\ mouse_call = NoMouseCall
    /\ rb_read = -1

----------------------------------------------------------------------------
(* Audio, unix_main.c:85-119: umac_audio_trap runs on the emulator thread,  *)
(* called by cpu_write_byte (main.c:458-461); audio_callback runs on the    *)
(* thread of the audio device.                                              *)

\* the number of samples of audio[] that the model keeps (370 in the source)
AudioLen == 2

MaxTraps == 2

MaxCallbacks == 2

\* the RAM offset whose write calls umac_audio_trap: the last sample of the
\* sound buffer
AudioTrapOffs == RAM_SIZE - 30

IS_RAM_AUDIO_TRAP(address) == address = AudioTrapOffs

\* one sample of umac_audio_trap, unix_main.c:105-109, as an int16_t
umac_audio_sample(data, scale) ==
    LET a == (((data % 256) - 128) * scale) \div 256
    IN  ((a + 32768) % 65536) - 32768

\* volscale as umac_audio_cfg leaves it: muted, and full volume
VolScales == {0, 65536}

\* the byte of the sound buffer behind a sample
SoundBytes == {0, 255}

NoTrap == [i |-> -1, val |-> 0]

audioFrame == <<intVars, ENABLE_AUDIO, memVars, faultVars, kbdVars, kbdHist, ovl_hist,
                irqVars, bootVars, mouseVars, iwm_wr, hostVars>>

\* cpu_write_byte to the trap address, main.c:455-463: the store, then
\* umac_audio_trap up to its first store into audio[] (memset or the loop)
CpuWriteByteTrap ==
    /\ pc = "execute"
    /\ ENABLE_AUDIO
    /\ ntrap < MaxTraps
    /\ IS_RAM(RAM_HIGH_ADDR + AudioTrapOffs)
    /\ IS_RAM_AUDIO_TRAP(CLAMP_RAM_ADDR(RAM_HIGH_ADDR + AudioTrapOffs))
    /\ \E v \in WrVals :
         last_acc' = Access("wrb", RAM_HIGH_ADDR + AudioTrapOffs, v, "ram", <<>>)
    /\ \E data \in SoundBytes, scale \in VolScales :
         trap_pos' = [i |-> 0, val |-> IF scale = 0 THEN 0
                                       ELSE umac_audio_sample(data, scale)]
    /\ ntrap' = ntrap + 1
    /\ pc' = "audio_trap"
    /\ UNCHANGED <<cycles, used_cycles, global_cycles, global_time_us, loop_ret, nloops,
                   fault_in_call, loop_trace, loop_args>>
    /\ UNCHANGED <<audio, pending_v_retrace, cb_pos, ncb, stream>>
    /\ UNCHANGED audioFrame

\* one store of umac_audio_trap into audio[]
AudioTrapStore ==
    /\ pc = "audio_trap"
    /\ trap_pos.i < AudioLen
    /\ audio' = [audio EXCEPT ![trap_pos.i] = trap_pos.val]
    /\ trap_pos' = [trap_pos EXCEPT !.i = trap_pos.i + 1]
    /\ UNCHANGED <<pending_v_retrace, ntrap, cb_pos, ncb, stream>>
    /\ UNCHANGED <<loopVars, last_acc>>
    /\ UNCHANGED audioFrame

\* umac_audio_trap and cpu_write_byte return to the CPU
AudioTrapReturn ==
    /\ pc = "audio_trap"
    /\ trap_pos.i = AudioLen
    /\ trap_pos' = NoTrap
    /\ pc' = "execute"
    /\ UNCHANGED <<cycles, used_cycles, global_cycles, global_time_us, loop_ret, nloops,
                   fault_in_call, loop_trace, loop_args>>
    /\ UNCHANGED <<audio, pending_v_retrace, ntrap, cb_pos, ncb, stream, last_acc>>
    /\ UNCHANGED audioFrame

\* audio_callback, unix_main.c:113-118, up to the start of its memcpy
AudioCallbackBegin ==
    /\ ENABLE_AUDIO
    /\ host_pc = "running"
    /\ cb_pos = -1
    /\ ncb < MaxCallbacks
    /\ pending_v_retrace' = 1                     \* atomic_store
    /\ cb_pos' = 0
    /\ ncb' = ncb + 1
    /\ UNCHANGED <<audio, trap_pos, ntrap, stream>>
    /\ UNCHANGED <<loopVars, last_acc>>
    /\ UNCHANGED audioFrame

\* one sample of the memcpy of audio_callback
AudioCallbackCopy ==
    /\ cb_pos # -1
    /\ stream' = [stream EXCEPT ![cb_pos] = audio[cb_pos]]
    /\ cb_pos' = IF cb_pos + 1 = AudioLen THEN -1 ELSE cb_pos + 1
    /\ UNCHANGED <<audio, pending_v_retrace, trap_pos, ntrap, ncb>>
    /\ UNCHANGED <<loopVars, last_acc>>
    /\ UNCHANGED audioFrame

\* main, unix_main.c:416: atomic_exchange(&pending_v_retrace, 0) after umac_loop
HostVRetrace ==
    /\ pc = "host"
    /\ ENABLE_AUDIO
    /\ nloops > 0
    /\ pending_v_retrace = 1
    /\ pending_v_retrace' = 0
    /\ UNCHANGED <<audio, trap_pos, ntrap, cb_pos, ncb, stream>>
    /\ UNCHANGED <<loopVars, last_acc>>
    /\ UNCHANGED audioFrame

InitAudio ==
    /\ audio = [i \in 0..(AudioLen - 1) |-> 0]
    /\ stream = [i \in 0..(AudioLen - 1) |-> 0]
    /\ pending_v_retrace = 0
    /\ trap_pos = NoTrap
    /\ ntrap = 0
    /\ cb_pos = -1
    /\ ncb = 0

----------------------------------------------------------------------------
(* umac_loop, main.c:664-681.  pc follows the single thread of control:     *)
(*   "host"    outside umac_loop                                            *)
(*   "setjmp"  at setjmp(main_loop_jb), also where exit_error lands         *)
(*   "execute" inside m68k_execute, the CPU calling the accessors           *)
(*   "tick"    inside via_tick                                              *)
(*   "kbd"     before kbd_check_work                                        *)

MaxLoops == 3

\* what via_limit_cycles may answer for a request of n cycles: n, or fewer
\* when a VIA timer is due earlier
LimitChoices(n) == {n, n \div 2}

\* m68k_execute runs whole instructions: it may overrun by an instruction
Overrun == {0, 4}

loopFrame == <<intVars, ENABLE_AUDIO, memVars, faultVars, kbdVars, memHist, kbdHist,
               extVars>>

UmacLoopCall ==
    /\ pc = "host"
    /\ nloops < MaxLoops
    /\ pc' = "setjmp"
    /\ nloops' = nloops + 1
    /\ host_pc = "running"
    /\ fault_in_call' = FALSE
    /\ loop_trace' = <<>>
    /\ UNCHANGED <<cycles, used_cycles, global_cycles, global_time_us, loop_ret,
                   loop_args>>
    /\ UNCHANGED loopFrame

ViaLimitCycles ==
    /\ pc = "setjmp"
    /\ \E c \in LimitChoices(UMAC_EXECLOOP_QUANTUM * 8) :
         /\ cycles' = c
         /\ loop_args' = [loop_args EXCEPT !.limit_in = UMAC_EXECLOOP_QUANTUM * 8,
                                           !.limit_out = c,
                                           !.execute_in = c]
    /\ loop_trace' = loop_trace \o <<"via_limit_cycles", "m68k_execute">>
    /\ pc' = "execute"
    /\ UNCHANGED <<used_cycles, global_cycles, global_time_us, loop_ret, nloops,
                   fault_in_call>>
    /\ UNCHANGED loopFrame

\* the argument umac_loop hands to via_tick, main.c:677
via_tick_arg_requested(used) == cycles

via_tick_arg(used) == used

NoLoopArgs == [limit_in |-> 0, limit_out |-> 0, execute_in |-> 0,
               execute_out |-> 0, tick_in |-> 0]

M68kExecuteReturns ==
    /\ pc = "execute"
    /\ \E o \in Overrun :
         /\ used_cycles' = cycles + o
         /\ global_cycles' = global_cycles + cycles + o
         /\ global_time_us' = (global_cycles + cycles + o) \div 8
         /\ loop_args' = [loop_args EXCEPT !.execute_out = cycles + o,
                                           !.tick_in = via_tick_arg(cycles + o)]
    /\ loop_trace' = Append(loop_trace, "via_tick")
    /\ pc' = "tick"
    /\ UNCHANGED <<cycles, loop_ret, nloops, fault_in_call>>
    /\ UNCHANGED loopFrame

ViaTick ==
    /\ pc = "tick"
    /\ pc' = "kbd"
    /\ UNCHANGED <<cycles, used_cycles, global_cycles, global_time_us, loop_ret,
                   nloops, fault_in_call, loop_trace, loop_args>>
    /\ UNCHANGED loopFrame

umac_loop_result == sim_done

UmacLoopReturn ==
    /\ pc = "kbd"
    /\ kbd_check_work
    /\ loop_ret' = umac_loop_result
    /\ pc' = "host"
    /\ cycles' = 0 /\ used_cycles' = 0            \* the locals end with the call
    /\ loop_trace' = Append(loop_trace, "kbd_check_work")
    /\ loop_args' = NoLoopArgs
    /\ UNCHANGED <<global_cycles, global_time_us, nloops, fault_in_call>>
    /\ UNCHANGED <<intVars, ENABLE_AUDIO, memVars, faultVars, memHist, extVars>>

InitLoop ==
    /\ pc = "host"
    /\ cycles = 0
    /\ used_cycles = 0
    /\ global_cycles = 0
    /\ global_time_us = 0
    /\ loop_ret = -1
    /\ nloops = 0
    /\ fault_in_call = FALSE
    /\ loop_trace = <<>>
    /\ loop_args = NoLoopArgs

----------------------------------------------------------------------------
(* Main loop of the host, unix_main.c:353-446.  One iteration polls an SDL   *)
(* event, calls umac_loop, reads the clock and lets time pass for the        *)
(* emulator: umac_vsync_event and umac_1hz_event.                            *)

\* the clock when the main loop is entered: microseconds since the epoch
StartUsec == 1000000000

\* the time an iteration of the main loop may take, in microseconds
HostDelays == {100, 20000, 1000000}

NoVsync == [n |-> 0, at |-> 0, gap |-> -1, ncb |-> 0, ecb |-> 0]

\* atomic_exchange(&pending_v_retrace, 0), unix_main.c:416: the value it
\* answers and the value it leaves, in one step
atomic_exchange_load_only(obj, desired) == [ret |-> obj, val |-> obj]

atomic_exchange(obj, desired) == [ret |-> obj, val |-> desired]

\* do_v_retrace without audio, unix_main.c:418
do_v_retrace(now) == U64Sub(now, last_vsync) >= 16667

\* unix_main.c:366-370: SDL_QUIT ends the loop after this iteration
HostPollQuit ==
    /\ pc = "host"
    /\ host_pc = "running"
    /\ host_iter = nloops
    /\ done = 0
    /\ done' = 1
    /\ UNCHANGED <<now_usec, last_vsync, last_1hz, host_iter, vsync_rec>>
    /\ UNCHANGED <<intVars, ENABLE_AUDIO, memVars, faultVars, loopVars, kbdVars, memHist,
                   kbdHist, irqVars, bootVars, mouseVars, audioVars, iwm_wr>>

\* unix_main.c:409: the umac_loop call of an iteration
HostLoopCall ==
    /\ host_iter = nloops
    /\ UmacLoopCall

\* unix_main.c:409-446: done |= umac_loop(), gettimeofday, the vertical
\* retrace and the one-second event, and the test of the do-while
HostPassageOfTime ==
    /\ pc = "host"
    /\ host_pc = "running"
    /\ nloops = host_iter + 1
    /\ \E d \in HostDelays :
         LET now == now_usec + d
             xchg == atomic_exchange(pending_v_retrace, 0)
             retrace == IF ENABLE_AUDIO THEN xchg.ret # 0 ELSE do_v_retrace(now)
         IN  /\ now_usec' = now
             /\ pending_v_retrace' = IF ENABLE_AUDIO THEN xchg.val
                                     ELSE pending_v_retrace
             /\ vsync_rec' = IF retrace
                             THEN [n |-> vsync_rec.n + 1, at |-> now,
                                   gap |-> IF vsync_rec.n = 0 THEN -1
                                           ELSE now - vsync_rec.at,
                                   ncb |-> ncb, ecb |-> ncb]
                             ELSE [vsync_rec EXCEPT !.ncb = ncb]
             /\ last_1hz' = IF U64Sub(now, last_1hz) >= 1000000 THEN now ELSE last_1hz
    /\ UNCHANGED last_vsync
    /\ done' = IF done # 0 \/ loop_ret # 0 THEN 1 ELSE 0
    /\ host_pc' = IF done # 0 \/ loop_ret # 0 THEN "exited" ELSE host_pc
    /\ host_iter' = host_iter + 1
    /\ UNCHANGED <<disp_width, disp_height, mem_size, patch_ret, npatch, rom_orig,
                   rom_once>>
    /\ UNCHANGED <<intVars, ENABLE_AUDIO, memVars, faultVars, loopVars, kbdVars, memHist,
                   kbdHist, irqVars, mouseVars, audio, trap_pos, ntrap, cb_pos, ncb,
                   stream, iwm_wr>>

InitHost ==
    /\ now_usec = StartUsec
    /\ last_vsync = 0
    /\ last_1hz = 0
    /\ done = 0
    /\ host_iter = 0
    /\ vsync_rec = NoVsync

----------------------------------------------------------------------------
Init == InitInt /\ InitMem /\ InitLoop /\ InitKbd /\ InitIrq /\ InitBooted
        /\ InitMouse /\ InitAudio /\ InitHost

\* before the ROM is patched: a ROM file is loaded, nothing else has run
InitRom == InitInt /\ InitMemState /\ ~ENABLE_AUDIO /\ InitLoop /\ InitKbd /\ InitIrq
           /\ InitLoaded /\ InitMouse /\ InitAudio /\ InitHost

\* the build with audio
InitWithAudio == Init /\ ENABLE_AUDIO

NextInt == IntSet \/ IntClear

NextLoop == UmacLoopCall \/ ViaLimitCycles \/ M68kExecuteReturns \/ ViaTick
            \/ UmacLoopReturn

NextMem == NextLoop \/ CpuReadWord \/ CpuReadLong \/ CpuWriteByte
           \/ ViaRaChanged \/ UmacReset

NextKbd == NextLoop \/ ViaSrTx \/ UmacKbdEvent

NextIrq == NextLoop \/ ViaIrqSet \/ SccIrqSet

NextWr == NextLoop \/ CpuWriteByte \/ CpuWriteWord \/ CpuWriteLong \/ ViaRaChanged
          \/ CpuWriteByteUnhandled

NextRom == RomPatch \/ HostRefuses \/ HostStartsEmulator \/ NextLoop

NextMouse == NextLoop \/ UmacMouse \/ ViaRbIn \/ CpuWriteCrsrCouple

NextAudio == NextLoop \/ CpuWriteByteTrap \/ AudioTrapStore \/ AudioTrapReturn
             \/ AudioCallbackBegin \/ AudioCallbackCopy \/ HostVRetrace

\* umac_loop with the CPU's byte accesses to the IWM
NextIwm == NextLoop \/ CpuReadByte \/ CpuWriteByteIwm \/ ViaRaChanged

\* the main loop of the host with the audio thread
NextVsync == HostLoopCall \/ ViaLimitCycles \/ M68kExecuteReturns \/ ViaTick
             \/ UmacLoopReturn \/ HostPassageOfTime \/ AudioCallbackBegin
             \/ AudioCallbackCopy

\* umac_loop with the Mac's transmissions to the keyboard
NextKbdLive == NextLoop \/ ViaSrTx

\* umac_loop with the CPU's word and long accesses at the end of a buffer
NextEnd == NextLoop \/ CpuReadAtEnd \/ CpuWriteAtEnd \/ CpuWriteByte

\* the main loop of the host around umac_loop, with a CPU that may fault
NextHost == HostPollQuit \/ HostLoopCall \/ ViaLimitCycles \/ M68kExecuteReturns
            \/ ViaTick \/ UmacLoopReturn \/ HostPassageOfTime \/ CpuReadWord

Next == NextInt \/ NextMem \/ NextKbd \/ NextIrq \/ NextWr \/ NextRom \/ NextMouse
        \/ NextAudio \/ NextHost \/ NextIwm \/ NextEnd \/ NextKbdLive \/ NextVsync

\* the interrupt controller alone (it does not read the build flag)
\* ENABLE_AUDIO is a build option that only via_ra_changed reads.
InitNoAudio == Init /\ ~ENABLE_AUDIO

SpecInt == InitNoAudio /\ [][NextInt]_vars

\* umac_loop with the CPU's memory accesses, the port A callback and reset
SpecMem == Init /\ [][NextMem]_vars

\* umac_loop with the keyboard service (it does not read the build flag)
SpecKbd == InitNoAudio /\ [][NextKbd]_vars

\* umac_loop with the interrupt hooks of the VIA and the SCC
SpecIrq == InitNoAudio /\ [][NextIrq]_vars

\* umac_loop with the CPU's writes of every width
SpecWr == InitNoAudio /\ [][NextWr]_vars

\* the host from the loaded ROM file to the running emulator
SpecRom == InitRom /\ [][NextRom]_vars

\* umac_loop with the CPU's accesses at the end of the RAM and the ROM
SpecEnd == InitNoAudio /\ [][NextEnd]_vars

\* the host keeps calling umac_loop, and every call runs to its end
SpecKbdLive == InitNoAudio /\ [][NextKbdLive]_vars /\ WF_vars(NextLoop)

\* the main loop of the host with audio: the vertical retrace comes from the
\* audio callback
SpecVsync == InitWithAudio /\ [][NextVsync]_vars

\* umac_loop with the mouse
SpecMouse == InitNoAudio /\ [][NextMouse]_vars

\* umac_loop and the audio thread
SpecAudio == InitWithAudio /\ [][NextAudio]_vars

\* umac_loop with the IWM register stub
SpecIwm == InitNoAudio /\ [][NextIwm]_vars

\* the main loop of the host, built without audio
SpecHost == InitNoAudio /\ [][NextHost]_vars

Spec == Init /\ [][Next]_vars

----------------------------------------------------------------------------
(* Index of the highest bit set in a mask, 0 for the empty mask.            *)
MaxBit(mask) ==
    IF mask = 0 THEN 0
    ELSE CHOOSE i \in 0..7 : Bit(mask, i) = 1 /\ \A j \in (i+1)..7 : Bit(mask, j) = 0

\* C1: after any sequence of int_controller_set / int_controller_clear calls
\* with levels 1..7, g_int_controller_highest_int is the index of the highest
\* bit set in g_int_controller_pending, or 0 when the mask is empty.
C1_HighestIsMaxBit ==
    g_int_controller_highest_int = MaxBit(g_int_controller_pending)

\* a lower level was set while a higher one is pending, then the higher cleared
C1_Witness ==
    /\ int_call.op = "clear" /\ int_call.changed
    /\ g_int_controller_pending # 0
    /\ g_int_controller_highest_int = 2

\* C10 (as claimed): every call that changes the pending mask calls
\* m68k_set_irq within that call, with the highest level still pending.
C10_ReassertOnEveryChange ==
    int_call.changed =>
        int_call.irq = <<MaxBit(g_int_controller_pending)>>

\* C10 (amended): every int_controller_clear call, and every
\* int_controller_set call that raises the highest pending level, calls
\* m68k_set_irq once within the call with the highest level still pending
\* (0 if the mask became empty); any other set makes no call, and the CPU's
\* IRQ input then already equals the highest pending level.
C10_IrqFollowsHighest ==
    /\ cpu_int_level = MaxBit(g_int_controller_pending)
    /\ int_call.op = "clear" =>
          int_call.irq = <<MaxBit(g_int_controller_pending)>>
    /\ int_call.op = "set" =>
          int_call.irq \in {<<>>, <<MaxBit(g_int_controller_pending)>>}
    /\ (int_call.op = "set" /\ int_call.irq = <<>>) =>
          int_call.value <= MaxBit(g_int_controller_pending)

\* a set of a lower level changed the mask without raising the highest level
C10_Witness ==
    /\ int_call.op = "set" /\ int_call.changed /\ int_call.irq = <<>>
    /\ cpu_int_level = 5 /\ Bit(g_int_controller_pending, 3) = 1

----------------------------------------------------------------------------
(* Overlay and memory map                                                   *)

\* the big-endian word at offset 0 of an image
WordAtZero(image) == image[0] * 256 + image[1]

\* C2: once a port A change with bit 4 clear has cleared overlay, a CPU word
\* read of address 0x000000 returns the big-endian word at RAM offset 0; while
\* overlay is still true (no clearing change yet) it returns the word at ROM
\* offset 0.
C2_WordZeroFollowsOverlay ==
    (last_acc.op = "rdw" /\ last_acc.addr = 0) =>
        /\ ovl_hist = "cleared" => last_acc.val = WordAtZero(ram)
        /\ ovl_hist = "never_cleared" => last_acc.val = WordAtZero(rom)

\* a word read of address 0 after the clearing change, RAM and ROM differing
C2_Witness ==
    /\ last_acc.op = "rdw" /\ last_acc.addr = 0 /\ ovl_hist = "cleared"
    /\ last_acc.val = 43520 /\ WordAtZero(rom) # 43520

\* C3: after any sequence of port A change callbacks and umac_reset calls,
\* cpu_read_instr is the overlay variant exactly when overlay is true.
C3_FetchAgreesWithOverlay ==
    (cpu_read_instr = "overlay") <=> (overlay # 0)

\* C4: an unmapped word or long read, or a failing disc hook, during
\* umac_loop sets the done flag, and that umac_loop call returns 1.
C4_FaultMakesLoopReturnOne ==
    fault_in_call =>
        /\ sim_done = 1
        /\ pc = "host" => loop_ret = 1

\* umac_loop has returned after an unmapped read in it
C4_Witness ==
    /\ pc = "host" /\ fault_in_call /\ loop_ret = 1
    /\ last_acc.by = "fatal"

\* C5: every CPU byte write to PV_SONY_ADDR calls disc_pv_hook exactly once,
\* with the written byte as command tag.
C5_DoorbellCallsDisc ==
    (last_acc.op = "wrb" /\ last_acc.addr = PV_SONY_ADDR) =>
        last_acc.disc = <<last_acc.val>>

----------------------------------------------------------------------------
(* Keyboard service                                                         *)

\* virtual time since the latest via_sr_tx
SinceTx == U64Sub(global_time_us, tx_rec.time)

\* C6 (as claimed): a command recorded by via_sr_tx is not answered before
\* a poll at which more than 5000 us have passed, and at the first such poll
\* it is answered through via_sr_rx.
C6_AnsweredAtFirstPoll ==
    /\ last_poll.rx # <<>> => last_poll.waited > 5000
    /\ (pc = "host" /\ tx_rec.some /\ tx_rec.byte # 0 /\ SinceTx > 5000) =>
          tx_rec.answered

\* C6 (amended): a byte recorded by via_sr_tx is neither processed nor
\* answered before a kbd_check_work poll at which more than 5000 us have
\* passed since it was recorded; a non-zero byte is processed (handed to
\* kbd_rx and cleared) at the first such poll, and it is answered through
\* via_sr_rx exactly when it is 0x16 or 0x10.
C6_ProcessedAtFirstPoll ==
    /\ last_poll.ran => last_poll.waited > 5000
    /\ last_poll.rx # <<>> => last_poll.ran
    /\ tx_rec.processed => tx_rec.byte # 0
    /\ tx_rec.answered => tx_rec.processed
    /\ (pc = "host" /\ tx_rec.some /\ tx_rec.byte # 0 /\ SinceTx > 5000) =>
          /\ tx_rec.processed
          /\ kbd_last_cmd = 0
          /\ tx_rec.answered <=> tx_rec.byte \in {22, 16}

\* a command that waited through a poll at exactly 5000 us was answered at 5001
C6_Witness ==
    /\ pc = "host" /\ tx_rec.answered
    /\ last_poll.ran /\ last_poll.waited = 5001

\* the event byte as the claim states it: bit 7 clear for down, set for up
StatedEventByte(ev) ==
    IF ev.down # 0 THEN ev.scancode % 128 ELSE (ev.scancode % 128) + 128

\* the event byte: the scancode, with 0x80 OR-ed in for key-up
OredEventByte(ev) ==
    IF ev.down # 0 \/ ev.scancode >= 128 THEN ev.scancode ELSE ev.scancode + 128

\* C7 (as claimed): INQUIRY answers the pending event, the scancode with
\* bit 7 clear for key-down and set for key-up, and empties the slot; with
\* none pending it answers 0x7B; no event is delivered twice.
C7_InquiryStatedByte ==
    /\ (last_poll.ran /\ last_poll.cmd = 16) =>
          IF last_poll.evt_before # -1
          THEN /\ last_poll.rx = <<StatedEventByte(deliveries.last.ev)>>
               /\ last_poll.evt_after = -1
          ELSE last_poll.rx = <<123>>
    /\ ~deliveries.twice

\* C7 (amended): INQUIRY answers the pending event, which is the scancode
\* given to umac_kbd_event with 0x80 OR-ed in for key-up and unchanged for
\* key-down (bit 7 tells up from down only for scancodes below 0x80), and
\* empties the slot; with none pending it answers 0x7B; no event is
\* delivered twice.
C7_InquiryOredByte ==
    /\ (last_poll.ran /\ last_poll.cmd = 16) =>
          IF last_poll.evt_before # -1
          THEN /\ last_poll.rx = <<OredEventByte(deliveries.last.ev)>>
               /\ last_poll.evt_after = -1
          ELSE /\ last_poll.rx = <<123>>
               /\ last_poll.evt_after = -1
    /\ (pc = "host" /\ last_poll.ran /\ last_poll.cmd = 16 /\ evt_seq = deliveries.last.latest)
          => kbd_pending_evt = -1
    /\ ~deliveries.twice

\* after one event was delivered, a second INQUIRY found the slot empty
C7_Witness ==
    /\ last_poll.ran /\ last_poll.cmd = 16
    /\ last_poll.evt_before = -1 /\ last_poll.rx = <<123>>
    /\ deliveries.ids # {}

\* C8: GET_MODEL queues exactly one byte through via_sr_rx, 0x0B, and
\* leaves a pending key event alone.
C8_GetModel ==
    (last_poll.ran /\ last_poll.cmd = 22) =>
        /\ last_poll.rx = <<11>>
        /\ last_poll.evt_after = last_poll.evt_before

\* GET_MODEL was answered while a key event was pending
C8_Witness ==
    /\ last_poll.ran /\ last_poll.cmd = 22 /\ last_poll.rx = <<11>>
    /\ last_poll.evt_before = 179 /\ kbd_pending_evt = 179

\* C9: one key event is buffered: of two umac_kbd_event calls with no
\* INQUIRY processed in between the later overwrites the earlier, the next
\* INQUIRY returns the later, and the earlier is never delivered.
C9_LaterEventWins ==
    /\ kbd_pending_evt # -1 =>
          /\ slot_id = evt_seq
          /\ kbd_pending_evt = OredEventByte(last_ev)
    /\ deliveries.ids # {} =>
          /\ deliveries.last.id = deliveries.last.latest
          /\ deliveries.last.byte = OredEventByte(deliveries.last.lev)
    /\ deliveries.ids \cap overwritten = {}

\* the second of two events was delivered, the first was overwritten
C9_Witness ==
    /\ 1 \in overwritten /\ deliveries.last.id = 2
    /\ deliveries.last.byte # EventByte(51, 1)

----------------------------------------------------------------------------
\* 1 for an asserted status, 0 for a de-asserted one
Asserted(status) == IF status # 0 THEN 1 ELSE 0

C12_LoopOrder ==
    /\ (pc = "host" /\ nloops > 0 /\ ~fault_in_call) =>
          loop_trace = <<"via_limit_cycles", "m68k_execute", "via_tick",
                         "kbd_check_work">>
    /\ (pc = "kbd" /\ ~fault_in_call) =>
          loop_trace = <<"via_limit_cycles", "m68k_execute", "via_tick">>
    /\ pc \in {"execute", "tick", "kbd"} =>
          /\ loop_args.limit_in = 40000
          /\ loop_args.execute_in = loop_args.limit_out
          /\ loop_args.execute_in <= 40000
    /\ pc \in {"tick", "kbd"} =>
          /\ loop_args.tick_in = loop_args.execute_out
          /\ loop_args.tick_in = used_cycles

C12_Witness ==
    /\ pc = "kbd" /\ ~fault_in_call /\ nloops = 2
    /\ loop_args.limit_out < 40000
    /\ loop_args.execute_out > loop_args.execute_in

\* the regions of the memory map an address belongs to, the disc doorbell
\* being the pseudo-device
RegionsOf(address) ==
    {g \in {"ram", "rom", "via", "scc_rd", "scc_wr", "iwm", "dummy", "pseudo"} :
        \/ g = "ram" /\ IS_RAM(address)
        \/ g = "rom" /\ IS_ROM(address)
        \/ g = "via" /\ IS_VIA(address)
        \/ g = "scc_rd" /\ IS_SCC_RD(address)
        \/ g = "scc_wr" /\ IS_SCC_WR(address)
        \/ g = "iwm" /\ IS_IWM(address)
        \/ g = "dummy" /\ (IS_DUMMY(address) \/ IS_TESTSW(address))
        \/ g = "pseudo" /\ address = PV_SONY_ADDR}

\* C13 (as claimed): an address the CPU accesses belongs to at most one
\* region, in either overlay mode.
C13_RegionsDisjoint ==
    last_acc.op # "none" => Cardinality(RegionsOf(last_acc.addr)) <= 1

\* C14: no CPU write of any width changes a byte of the ROM image.
C14_WritesLeaveRom == rom = RomImage

C14_Witness ==
    /\ last_acc.op = "wrl" /\ last_acc.addr = ROM_ADDR /\ last_acc.by = "ignored"
    /\ overlay = 0

\* the loaded image is a Mac Plus v3 ROM
IsPlusV3 == rom_get_version(rom_orig) = ROM_PLUSv3_VERSION

\* the big-endian word of an image at an offset
WordAt(r, o) == r[o] * 256 + r[o + 1]

\* C15: with a version word other than 0x4D1F8172 the patcher returns
\* non-zero and leaves every ROM byte as loaded, and the host never starts
\* the emulator: no umac_init, no umac_loop.
C15_UnknownRomRefused ==
    ~IsPlusV3 =>
        /\ rom = rom_orig
        /\ npatch > 0 => patch_ret # 0
        /\ host_pc # "running"
        /\ nloops = 0 /\ pc = "host"

C15_Witness ==
    /\ ~IsPlusV3 /\ rom_orig[0] = 77
    /\ npatch > 0 /\ host_pc = "exited"

\* C16: on a Mac Plus v3 ROM the second application of the patcher succeeds
\* and leaves the bytes of the first, and no application alters the version
\* word.
C16_PatchIdempotent ==
    IsPlusV3 =>
        /\ rom_get_version(rom) = ROM_PLUSv3_VERSION
        /\ npatch > 0 => patch_ret = 0
        /\ npatch >= 2 => rom = rom_once

C16_Witness ==
    /\ IsPlusV3 /\ npatch = 2 /\ rom # rom_orig
    /\ disp_width = 1024 /\ mem_size = 262144

\* the offsets of the replacement driver
SonyOffs == ROM_PLUSv3_SONYDRV..(ROM_PLUSv3_SONYDRV + SonyLen - 1)

\* C17: for 512x342 and 128 KiB the patch writes the word 0xB381 at 0xD92
\* and the driver at 0x17D30, whose last four bytes are PV_SONY_ADDR
\* big-endian, and leaves every other byte as loaded.
C17_DefaultPatchFootprint ==
    (IsPlusV3 /\ npatch > 0 /\ disp_width = 512 /\ disp_height = 342
       /\ mem_size = 128 * 1024) =>
        /\ DOMAIN rom = DOMAIN rom_orig
        /\ WordAt(rom, 3474) = 45953
        /\ \A i \in 0..(SonyLen - 5) : rom[ROM_PLUSv3_SONYDRV + i] = sony_driver(i)
        /\ WordAt(rom, ROM_PLUSv3_SONYDRV + SonyLen - 4) = PV_SONY_ADDR \div 65536
        /\ WordAt(rom, ROM_PLUSv3_SONYDRV + SonyLen - 2) = PV_SONY_ADDR % 65536
        /\ \A o \in DOMAIN rom \ ({3474, 3475} \cup SonyOffs) : rom[o] = rom_orig[o]

C17_Witness ==
    /\ IsPlusV3 /\ npatch > 0 /\ host_pc = "running"
    /\ disp_width = 512 /\ disp_height = 342 /\ mem_size = 128 * 1024

\* the offsets of the memory-size patch: 0x376-0x37D, 0x132-0x133, 0x292-0x295
MemPatchOffs == (886..893) \cup {306, 307} \cup (658..661)

\* C18: for 128 KiB < ram_size < 512 KiB the words at 0x376..0x37C are
\* 0x2A7C, ram_size >> 16, ram_size & 0xFFFF, 0x4E71, the word at 0x132 is
\* 0x6000 and the long at 0x292 is ram_size - 768; for other sizes these
\* bytes are as loaded.
C18_MemSizePatch ==
    (IsPlusV3 /\ npatch > 0) =>
        IF mem_size > 128 * 1024 /\ mem_size < 512 * 1024
        THEN /\ WordAt(rom, 886) = 10876
             /\ WordAt(rom, 888) = mem_size \div 65536
             /\ WordAt(rom, 890) = mem_size % 65536
             /\ WordAt(rom, 892) = 20081
             /\ WordAt(rom, 306) = 24576
             /\ WordAt(rom, 658) = (mem_size - 768) \div 65536
             /\ WordAt(rom, 660) = (mem_size - 768) % 65536
        ELSE \A o \in MemPatchOffs : rom[o] = rom_orig[o]

C18_Witness ==
    /\ IsPlusV3 /\ npatch > 0 /\ mem_size = 523264
    /\ WordAt(rom, 888) = 7 /\ WordAt(rom, 890) = 64512

\* the quadrature pair of a port B value: bit 4 (X2) and bit 5 (Y2)
QuadPair(rb) == <<Bit(rb, 4), Bit(rb, 5)>>

C20_NoConcurrentAudioAccess == ~(pc = "audio_trap" /\ cb_pos # -1)

\* C21 (as claimed): two consecutive umac_vsync_event calls of the host loop
\* built without audio are at least 16667 us of host time apart.
C21_VsyncSpacing == vsync_rec.gap = -1 \/ vsync_rec.gap >= 16667

\* C22: a command byte other than 0x16 and 0x10 that the keyboard service
\* processes queues no response byte and leaves the pending key event as it
\* was; the command slot is cleared, and stays clear until the next
\* via_sr_tx, so that no later poll processes the byte again.
C22_UnknownCommandIgnored ==
    /\ (last_poll.ran /\ last_poll.cmd \notin {KBD_CMD_GET_MODEL, KBD_CMD_INQUIRY}) =>
          /\ last_poll.cmd # 0
          /\ last_poll.rx = <<>>
          /\ last_poll.evt_after = last_poll.evt_before
    /\ (tx_rec.processed /\ tx_rec.byte \notin {KBD_CMD_GET_MODEL, KBD_CMD_INQUIRY}) =>
          /\ ~tx_rec.answered
          /\ kbd_last_cmd = 0
    /\ (~last_poll.ran /\ tx_rec.processed) => last_poll.cmd = 0

\* an unknown command was processed while a key event was pending
C22_Witness ==
    /\ pc = "host" /\ last_poll.ran /\ last_poll.cmd = 85
    /\ tx_rec.processed /\ tx_rec.byte = 85 /\ ~tx_rec.answered
    /\ last_poll.evt_before = 179 /\ kbd_pending_evt = 179 /\ kbd_last_cmd = 0

\* what a dropped write leaves alone: the memories, the devices, the
\* interrupt lines, the keyboard service and the fatal fault path
DroppedWriteFrame ==
    <<ram, rom, iwm_regs, via_regs, irqVars, intVars, kbdVars, faultVars, pc,
      fault_in_call, overlay, cpu_read_instr>>

\* a byte write address that no branch of cpu_write_byte handles
NoByteRegion(address) ==
    /\ ~IS_RAM(address) /\ ~IS_VIA(address) /\ ~IS_IWM(address)
    /\ ~IS_SCC_WR(address) /\ ~IS_DUMMY(address) /\ address # PV_SONY_ADDR

\* C23: a word or long write to an address outside RAM, and a byte write to
\* an address of no region, changes no byte of RAM or ROM and no device
\* state, hands nothing to the disc service and is not fatal.
C23_UnhandledWritesDropped ==
    [][/\ (last_acc' # last_acc /\ last_acc'.op \in {"wrw", "wrl"}
             /\ ~IS_RAM(last_acc'.addr)) =>
            /\ UNCHANGED DroppedWriteFrame
            /\ last_acc'.disc = <<>>
       /\ (last_acc' # last_acc /\ last_acc'.op = "wrb"
             /\ NoByteRegion(last_acc'.addr)) =>
            /\ UNCHANGED DroppedWriteFrame
            /\ last_acc'.disc = <<>>]_vars

\* a long write to the disc doorbell was dropped, after byte writes had
\* changed RAM and a VIA register
C23_Witness ==
    /\ last_acc.op = "wrl" /\ last_acc.addr = PV_SONY_ADDR /\ last_acc.by = "ignored"
    /\ last_acc.disc = <<>> /\ via_regs # ViaPostInit /\ ram[0] # 0
    /\ sim_done = 0 /\ pc = "execute"

\* C24 (as claimed): when umac_reset has returned, the VIA registers hold
\* their post-init values.
C24_ResetReinitialisesVia ==
    (pc = "host" /\ ovl_hist = "reset" /\ last_acc.op = "none") =>
        via_regs = ViaPostInit

\* a 16-bit word as a two's-complement number
SignExt16(w) == IF w >= 32768 THEN w - 65536 ELSE w

\* where the bra.w at offset o of an image lands: the displacement word
\* follows the opcode and counts from its own address
BraTarget(r, o) == o + 2 + SignExt16(WordAt(r, o + 2))

\* the low ROM outside the stub space 0x2E-0x57, up to the first screen
\* constant at 0x8A
OutsideStubSpace == {o \in DOMAIN rom : o < 138 /\ (o < 46 \/ o > 87)}

\* C25: with a resolution other than 512x342 the patcher succeeds, the word
\* at 0x3A0 is a bra whose displacement lands at 0x46, 0x46 holds
\* suba.l #(w*h/8 + 0x380), A5 followed by a bra that lands at 0x3A4, and
\* for every width nothing below 0x8A is written outside 0x2E-0x57.
C25_SubaRedirect ==
    (IsPlusV3 /\ npatch > 0) =>
        /\ patch_ret = 0
        /\ \A o \in OutsideStubSpace : rom[o] = rom_orig[o]
        /\ (disp_width # 512 \/ disp_height # 342) =>
              /\ WordAt(rom, 928) = 24576
              /\ BraTarget(rom, 928) = 70
              /\ WordAt(rom, 70) = 39932
              /\ WordAt(rom, 72) = ((disp_width * disp_height) \div 8 + 896) \div 65536
              /\ WordAt(rom, 74) = ((disp_width * disp_height) \div 8 + 896) % 65536
              /\ WordAt(rom, 76) = 24576
              /\ BraTarget(rom, 76) = 932

\* 1024x480: the immediate no longer fits a signed word, and both stride
\* helpers are written
C25_Witness ==
    /\ IsPlusV3 /\ npatch > 0 /\ patch_ret = 0
    /\ disp_width = 1024 /\ disp_height = 480
    /\ WordAt(rom, 74) = 62336 /\ WordAt(rom, 80) = 14908 /\ WordAt(rom, 50) = 12348

\* C26: a byte read of an IWM address whose bits 12:9 are r returns 0xFF for
\* r = 8, 0x1F for r = 14 and otherwise the byte the CPU last wrote to
\* register r, 0 before any write, whatever the other address bits and
\* whatever was written to the other registers.
C26_IwmRegisterFile ==
    (last_acc.op = "rdb" /\ IS_IWM(last_acc.addr)) =>
        LET r == (last_acc.addr \div 512) % 16
        IN  last_acc.val = IF r = 8 THEN 255 ELSE IF r = 14 THEN 31 ELSE iwm_wr[r]

\* register 0 read back through 0xDFE1FF after registers 1 and 8 were
\* written with another byte
C26_Witness ==
    /\ last_acc.op = "rdb" /\ last_acc.addr = 14672383 /\ last_acc.val = 170
    /\ iwm_wr[1] = 1 /\ iwm_wr[8] = 1 /\ iwm_regs[8] = 1

\* the calls of an umac_loop call that ran through, and of one that a long
\* jump took back to its setjmp
TraceDirect == <<"via_limit_cycles", "m68k_execute", "via_tick", "kbd_check_work">>

TraceJumped == <<"via_limit_cycles", "m68k_execute",
                 "via_limit_cycles", "m68k_execute", "via_tick", "kbd_check_work">>

\* loop_trace is the start of t
IsPrefix(t) == Len(loop_trace) <= Len(t) /\ loop_trace = SubSeq(t, 1, Len(loop_trace))

C28_DoneIsSticky ==
    [][/\ sim_done = 1 => sim_done' = 1
       /\ loop_ret = 1 => loop_ret' = 1
       /\ loop_ret' = 1 => sim_done' = 1]_vars

\* a later call without any fault has returned 1 again, and umac_reset has
\* run since the flag was set
C28_Witness ==
    /\ pc = "host" /\ nloops = 3 /\ loop_ret = 1 /\ ~fault_in_call
    /\ ovl_hist = "reset" /\ overlay = 1 /\ sim_done = 1

\* C29: once exit_error has set its guard, the guard stays set and no later
\* fatal condition long-jumps or touches the done flag: the faulting word or
\* long read returns 0 to the CPU, which goes on executing.
C29_ExitErrorActsOnce ==
    [][/\ guard_val = 1 =>
            /\ guard_val' = 1
            /\ ~(pc = "execute" /\ pc' = "setjmp")
       /\ (guard_val = 1 /\ last_acc' # last_acc /\ last_acc'.by = "fatal") =>
            /\ last_acc'.val = IF last_acc'.op = "rdl" THEN <<0, 0>> ELSE 0
            /\ pc = "execute" /\ pc' = "execute"
            /\ UNCHANGED <<sim_done, loop_trace, global_cycles>>]_vars

\* in a later umac_loop call an unmapped long read has returned 0
C29_Witness ==
    /\ guard_val = 1 /\ pc = "execute" /\ nloops = 3
    /\ last_acc.op = "rdl" /\ last_acc.by = "fatal" /\ last_acc.val = <<0, 0>>
    /\ loop_trace = <<"via_limit_cycles", "m68k_execute">>

\* C30: every byte that a word or long access to the RAM or the ROM touches
\* lies inside the buffer, at an offset of at most its size - 1.
C30_AccessInsideBuffer ==
    \A o \in TouchedOffsets(last_acc) : o <= BufferSize(last_acc) - 1

\* C31: a byte passed to via_sr_tx replaces a command that is still pending
\* and restarts the delay at the new transmit time; the replaced command is
\* never processed (every processing poll handles the latest byte, more than
\* 5000 us after it was sent, and each non-zero byte is either processed
\* once, replaced or still pending); after a 0x00 byte nothing is pending and
\* nothing is processed or answered.
C31_TxReplacesPending ==
    [][/\ ntx' # ntx =>
            /\ kbd_last_cmd' = tx_rec'.byte
            /\ kbd_last_cmd_time' = global_time_us
       /\ tx_rec'.nproc # tx_rec.nproc =>
            /\ last_poll'.cmd = tx_rec.byte
            /\ U64Sub(global_time_us, tx_rec.time) > 5000
            /\ ~tx_rec.processed
       /\ tx_rec'.nz = tx_rec'.lost + tx_rec'.nproc
                         + IF kbd_last_cmd' # 0 THEN 1 ELSE 0
       /\ (tx_rec'.some /\ tx_rec'.byte = 0) =>
            /\ kbd_last_cmd' = 0
            /\ ~tx_rec'.processed /\ ~tx_rec'.answered
            /\ (pc = "kbd" /\ pc' = "host") => last_poll'.rx = <<>>]_vars

\* GET_MODEL replaced a pending INQUIRY and was the only command answered
C31_Witness ==
    /\ tx_rec.replaced = 16 /\ tx_rec.byte = 22 /\ tx_rec.lost = 1
    /\ tx_rec.processed /\ tx_rec.nproc = 1 /\ last_poll.rx = <<11>>

\* C32: when m68k_execute has used no more cycles than it was given, the
\* kbd_check_work of a umac_loop call does not process a command that
\* via_sr_tx recorded during that same call, be it from the CPU's execution
\* or from via_tick.
C32_NotAnsweredInSameCall ==
    [][(tx_rec'.nproc # tx_rec.nproc /\ used_cycles <= cycles) =>
          tx_rec.loop # nloops]_vars

\* a command sent during the CPU's execution of the first call, which used
\* exactly the 40000 cycles it was given, was 5000 us old at the poll of that
\* call and was left pending
C32_Witness ==
    /\ pc = "host" /\ nloops = 1 /\ global_cycles = 40000
    /\ tx_rec.some /\ tx_rec.loop = nloops /\ tx_rec.at = "execute"
    /\ kbd_last_cmd = 22 /\ ~last_poll.ran /\ last_poll.cmd = 22
    /\ SinceTx = 5000

\* the least virtual time a umac_loop call adds, in microseconds
MinAdvanceUs ==
    LET choices == LimitChoices(UMAC_EXECLOOP_QUANTUM * 8)
    IN  (CHOOSE c \in choices : \A d \in choices : c <= d) \div 8

\* the umac_loop call by whose poll the latest command is more than 5000 us
\* old: a command sent from via_tick only ages from the next call on
KbdDeadline ==
    tx_rec.loop + (UMAC_EXECLOOP_QUANTUM \div MinAdvanceUs)
    + IF tx_rec.at = "tick" THEN 1 ELSE 0

C34_VsyncHandOff ==
    [][IF host_iter' # host_iter
       THEN /\ (vsync_rec'.n # vsync_rec.n) <=> (ncb > vsync_rec.ncb)
            /\ vsync_rec'.n \in {vsync_rec.n, vsync_rec.n + 1}
            /\ vsync_rec'.n # vsync_rec.n => ncb > vsync_rec.ecb
            /\ pending_v_retrace' = 0
       ELSE /\ vsync_rec'.n = vsync_rec.n
            /\ ncb' # ncb => pending_v_retrace' = 1]_vars

\* two callbacks before the first poll made one event, and the second poll,
\* with no callback since the first, made none
C34_Witness ==
    /\ host_iter = 2 /\ ncb = 2 /\ vsync_rec.n = 1 /\ vsync_rec.ecb = 2
    /\ pending_v_retrace = 0 /\ pc = "host"

====
